---- MODULE Spec2Model ----
(***************************************************************************)
(* Event pipeline of the sentiment service and the transcription service.  *)
(*                                                                         *)
(* Each service runs one asyncio event loop.  The lifespan coroutine and   *)
(* the background task share that loop, so the code between two await      *)
(* points of the task runs without interleaving of the lifespan code.      *)
(* The task's await points are the two asyncio.sleep calls of the consume  *)
(* generator.  The variable svc selects the service a behaviour is about.  *)
(*                                                                         *)
(* Units: the floating-point inputs are binary fractions held as           *)
(* integers (see Numbers below); settings and rounded results are          *)
(* integers in thousandths, rounded times in hundredths of a second.       *)
(* Identifiers are positive integers, 0 stands for an absent identifier.   *)
(***************************************************************************)
EXTENDS Integers, Sequences, FiniteSets, TLC

VARIABLES
    svc,                \* "sentiment" or "transcription"
    lifespan,           \* position of the lifespan coroutine
    pc,                 \* position of the background task / consume generator
    stage,              \* position inside the processing of one event
    batch,              \* records of the current poll not yet iterated
    polled,             \* the records the last non-empty poll returned
    yieldedOfBatch,     \* events yielded so far from the last non-empty poll
    cur,                \* the event being processed (NoEvent if none)
    work,               \* per-event working data of the processing
    out,                \* the output envelope built for cur (NoEvent if none)
    published,          \* acknowledged output events with their trigger
    consumer,           \* KafkaService.consumer: "none", "open", "closed"
    producer,           \* KafkaService.producer: "none", "open", "closed"
    processing_active,  \* transcription main.processing_active
    cancelRequested,    \* Task.cancel() was called on a task not yet finished
    drainTimer,         \* wait_for timer: "off", "armed", "expired"
    analyzer,           \* SentimentAnalyzer fields
    whisperModel,       \* WhisperService.model: "none" or "loaded"
    health,             \* routers.health._health_state
    tempFiles,          \* number of temporary audio files that exist
    nextUuid,           \* next value uuid4() returns
    delivered,          \* number of records polls have returned so far
    errors,             \* number of exceptions the per-event handler swallowed
    consecFail,         \* consecutive failed polls (saturating)
    loadFailed,         \* a load_model call of the analyzer has failed
    loads,              \* number of load_model calls after startup
    idleSinceShutdown,  \* an empty poll happened after the shutdown request
    connLog,            \* operations made on the broker connections
    settings,           \* config.settings of the sentiment service
    call                \* last direct call of an operation: name, input, result

vars == <<svc, lifespan, pc, stage, batch, polled, yieldedOfBatch, cur, work,
          out, published, consumer, producer, processing_active,
          cancelRequested, drainTimer, analyzer, whisperModel, health,
          tempFiles, nextUuid, delivered, errors, consecFail, loadFailed,
          loads, idleSinceShutdown, connLog, settings, call>>

(***************************************************************************)
(* Bounds of the model.                                                    *)
(***************************************************************************)
MaxMsgs == 2
MaxBatch == 2
MaxLoads == 1
FailCap == 2

(***************************************************************************)
(* Generic helpers.                                                        *)
(***************************************************************************)
Min(a, b) == IF a <= b THEN a ELSE b
Max(a, b) == IF a >= b THEN a ELSE b
Range(s) == {s[i] : i \in DOMAIN s}

NoEvent == [none |-> TRUE]
MissingStr == "<missing>"

(***************************************************************************)
(* Configuration (sentiment config.py, transcription config.py).           *)
(***************************************************************************)
neutral_range == <<-200, 200>>
escalation_threshold == 500
max_length == 500

\* config.settings as the process reads it when nothing is configured
DefaultSettings ==
    [neutral_range |-> neutral_range,
     escalation_threshold |-> escalation_threshold]

\* no operation has been called directly
NoCall == [op |-> "none", arg |-> <<>>, ret |-> <<>>]

(***************************************************************************)
(* Texts are tuples of characters.  str.strip() removes the leading and    *)
(* trailing characters c with c.isspace(): U+0009..U+000D, U+001C..U+001F, *)
(* U+0020, U+0085, U+00A0, and the space characters above U+00FF, which a  *)
(* string of this module cannot hold and no text of the model contains.    *)
(***************************************************************************)
Whitespace ==
    {" ", "\t", "\n", "", "\f", "\r", "", "", "", "",
     "", " "}

RECURSIVE LStrip(_)
LStrip(t) == IF t = <<>> THEN <<>>
             ELSE IF Head(t) \in Whitespace THEN LStrip(Tail(t)) ELSE t

RECURSIVE RStrip(_)
RStrip(t) == IF t = <<>> THEN <<>>
             ELSE IF t[Len(t)] \in Whitespace
             THEN RStrip(SubSeq(t, 1, Len(t) - 1))
             ELSE t

\* variant: strip returns its argument
Strip_Id(t) == t

Strip(t) == RStrip(LStrip(t))

(***************************************************************************)
(* Numbers.  The program computes on binary floating point; the model      *)
(* computes on integers.  The inputs of the model are binary fractions     *)
(* (scores and probabilities of the sentiment service in 1/1024, its       *)
(* segment times in 1/8 s; the raw times of the speech model in 1/64 s,    *)
(* avg_logprob and no_speech_prob in 1/64), on which the program's         *)
(* additions, subtractions and products are exact.  Settings are decimal   *)
(* (thousandths); a comparison of a binary fraction with a setting is made *)
(* by cross-multiplication, which decides as the comparison of the doubles *)
(* does.  Rounded results are decimal (thousandths, or hundredths of a     *)
(* second).                                                                *)
(*                                                                         *)
(* FloatDir(p, q), p > 0 and q > 0: the sign of fl(p / q) - p / q, where   *)
(* fl(x) is the double nearest to x (ties to the even significand): the    *)
(* quotient is developed to 53 significant bits and the rest decides.      *)
(***************************************************************************)
RECURSIVE FloatBits(_, _, _, _)
FloatBits(r, q, n, last) ==
    IF r = 0 THEN 0
    ELSE LET bit == 2 * r >= q
             rem == IF bit THEN 2 * r - q ELSE 2 * r
         IN  IF n = 0
             THEN (IF ~bit THEN -1
                   ELSE IF rem > 0 THEN 1
                   ELSE IF last = 1 THEN 1 ELSE -1)
             ELSE FloatBits(rem, q, n - 1, IF bit THEN 1 ELSE 0)

RECURSIVE FloatDir(_, _)
FloatDir(p, q) ==
    IF p < q THEN FloatDir(2 * p, q)
    ELSE IF p >= 2 * q THEN FloatDir(p, 2 * q)
    ELSE FloatBits(p - q, q, 52, 1)

(***************************************************************************)
(* round(x, ndigits) of the double x = fl(n / d), d > 0, in units of       *)
(* 1 / k (k = 10^ndigits).  round takes the decimal nearest to the double; *)
(* where n / d lies halfway between two decimals the side the double lies  *)
(* on decides, and a double exactly halfway goes to the even neighbour.    *)
(***************************************************************************)
Round(n, d, k) ==
    LET x == (IF n < 0 THEN -n ELSE n) * k
        q == x \div d
        r == x % d
        dir == FloatDir(2 * q + 1, 2 * k)
        m == IF 2 * r < d THEN q
             ELSE IF 2 * r > d THEN q + 1
             ELSE IF dir > 0 THEN q + 1
             ELSE IF dir < 0 THEN q
             ELSE IF q % 2 = 0 THEN q ELSE q + 1
    IN  IF n < 0 THEN -m ELSE m

(***************************************************************************)
(* The two engines.  The models themselves are external: their outputs     *)
(* are tables over the texts of the model, in 1/1024.                      *)
(***************************************************************************)
roberta_pipeline(text) ==
    IF "g" \in Range(text)
    THEN << [label |-> "LABEL_0", score |-> 52],
            [label |-> "LABEL_1", score |-> 152],
            [label |-> "LABEL_2", score |-> 820] >>
    ELSE IF "b" \in Range(text)
    THEN << [label |-> "LABEL_0", score |-> 922],
            [label |-> "LABEL_1", score |-> 82],
            [label |-> "LABEL_2", score |-> 20] >>
    ELSE << [label |-> "LABEL_0", score |-> 102],
            [label |-> "LABEL_1", score |-> 820],
            [label |-> "LABEL_2", score |-> 102] >>

polarity_scores(text) ==
    IF "g" \in Range(text)
    THEN [compound |-> 450, pos |-> 614, neu |-> 410, neg |-> 0]
    ELSE IF "b" \in Range(text)
    THEN [compound |-> -553, pos |-> 0, neu |-> 307, neg |-> 717]
    ELSE [compound |-> 0, pos |-> 0, neu |-> 1024, neg |-> 0]

sentiment_values(label) ==
    CASE label = "LABEL_0" -> -1
      [] label = "LABEL_1" -> 0
      [] label = "LABEL_2" -> 1

RECURSIVE WeightedSum(_)
WeightedSum(scores) ==
    IF scores = <<>> THEN 0
    ELSE sentiment_values(Head(scores).label) * Head(scores).score
         + WeightedSum(Tail(scores))

\* max(scores, key=score): the first item with the largest score
RECURSIVE TopLabel(_)
TopLabel(scores) ==
    IF Len(scores) = 1 THEN scores[1]
    ELSE LET rest == TopLabel(Tail(scores))
         IN  IF Head(scores).score >= rest.score THEN Head(scores) ELSE rest

\* variant: the edges of the band are outside it
Bucket_Strict(s, lo, hi) ==
    IF lo < s /\ s < hi THEN "neutral"
    ELSE IF s > 0 THEN "positive"
    ELSE "negative"

\* the bucketing of a score s (any unit, band given in the same unit)
Bucket(s, lo, hi) ==
    IF lo <= s /\ s <= hi THEN "neutral"
    ELSE IF s > 0 THEN "positive"
    ELSE "negative"

calculate_weighted_score(scores) ==
    LET weighted_score == WeightedSum(scores)
        top_label == TopLabel(scores)
    IN  [sentiment |-> Bucket(1000 * weighted_score,
                              1024 * settings.neutral_range[1],
                              1024 * settings.neutral_range[2]),
         score |-> weighted_score,
         confidence |-> top_label.score]

analyze_with_roberta(text) ==
    LET t == IF Len(text) > max_length THEN SubSeq(text, 1, max_length) ELSE text
        results == roberta_pipeline(t)
        w == calculate_weighted_score(results)
    IN  [sentiment |-> w.sentiment, score |-> w.score,
         confidence |-> w.confidence,
         emotions |-> {[label |-> results[i].label, p |-> results[i].score] :
                          i \in DOMAIN results}]

analyze_with_vader(text) ==
    LET scores == polarity_scores(text)
        compound == scores.compound
    IN  [sentiment |-> IF 1000 * compound >= 50 * 1024 THEN "positive"
                       ELSE IF 1000 * compound <= -50 * 1024 THEN "negative"
                       ELSE "neutral",
         score |-> IF 1000 * compound >= 50 * 1024 THEN Min(compound, 1024)
                   ELSE IF 1000 * compound <= -50 * 1024
                   THEN Max(compound, -1024) ELSE 0,
         confidence |-> IF compound >= 0 THEN compound ELSE -compound,
         emotions |-> {[label |-> "positive", p |-> scores.pos],
                       [label |-> "neutral", p |-> scores.neu],
                       [label |-> "negative", p |-> scores.neg]}]

NeutralResult == [sentiment |-> "neutral", score |-> 0, confidence |-> 1024,
                  emotions |-> {}]

\* variant: a failing primary call answers with the neutral default
analyze_text_NoFallback(text, use_fallback, throws) ==
    IF text = <<>> \/ Strip(text) = <<>>
    THEN [result |-> NeutralResult, primaryCalled |-> FALSE,
          vaderCalled |-> FALSE, threw |-> FALSE]
    ELSE IF use_fallback
    THEN [result |-> analyze_with_vader(text), primaryCalled |-> FALSE,
          vaderCalled |-> TRUE, threw |-> FALSE]
    ELSE IF throws
    THEN [result |-> NeutralResult, primaryCalled |-> TRUE,
          vaderCalled |-> FALSE, threw |-> TRUE]
    ELSE [result |-> analyze_with_roberta(text), primaryCalled |-> TRUE,
          vaderCalled |-> FALSE, threw |-> FALSE]

(***************************************************************************)
(* analyze_text on text, with the persistent flag use_fallback; throws     *)
(* tells whether the primary engine raises on this call.  The result       *)
(* records which engines were invoked.  The fallback engine does not raise *)
(* in the model (the code would call it a second time from the except      *)
(* clause and let that second failure out).                                *)
(***************************************************************************)
analyze_text(text, use_fallback, throws) ==
    IF text = <<>> \/ Strip(text) = <<>>
    THEN [result |-> NeutralResult, primaryCalled |-> FALSE,
          vaderCalled |-> FALSE, threw |-> FALSE]
    ELSE IF use_fallback
    THEN [result |-> analyze_with_vader(text), primaryCalled |-> FALSE,
          vaderCalled |-> TRUE, threw |-> FALSE]
    ELSE IF throws
    THEN [result |-> analyze_with_vader(text), primaryCalled |-> TRUE,
          vaderCalled |-> TRUE, threw |-> TRUE]
    ELSE [result |-> analyze_with_roberta(text), primaryCalled |-> TRUE,
          vaderCalled |-> FALSE, threw |-> FALSE]

\* the engine log of analyze_segments: one analyze_text call per segment
analyze_log(segments, use_fallback, throws) ==
    [i \in DOMAIN segments |->
        analyze_text(segments[i].text, use_fallback, throws[i])]

\* variant: the analyzed segment carries the stripped text
analyze_segments_Stripped(segments, use_fallback, throws) ==
    [i \in DOMAIN segments |->
        LET r == analyze_text(segments[i].text, use_fallback, throws[i]).result
        IN  [startTime |-> segments[i].startTime,
             endTime |-> segments[i].endTime,
             text |-> Strip(segments[i].text),
             sentiment |-> r.sentiment,
             score |-> r.score,
             confidence |-> r.confidence,
             emotions |-> r.emotions,
             speaker |-> segments[i].speaker]]

analyze_segments(segments, use_fallback, throws) ==
    [i \in DOMAIN segments |->
        LET r == analyze_text(segments[i].text, use_fallback, throws[i]).result
        IN  [startTime |-> segments[i].startTime,
             endTime |-> segments[i].endTime,
             text |-> segments[i].text,
             sentiment |-> r.sentiment,
             score |-> r.score,
             confidence |-> r.confidence,
             emotions |-> r.emotions,
             speaker |-> segments[i].speaker]]

(***************************************************************************)
(* calculate_overall_sentiment.  The overall score is the double nearest   *)
(* to the rational num / den (in 1/1024); den = 1 and num = 0 for the zero *)
(* result.                                                                 *)
(***************************************************************************)
\* variant: every segment is counted, whatever its duration
Counted_All(duration) == TRUE

\* the test "if duration > 0" of the loop
Counted(duration) == duration > 0

RECURSIVE SumWeighted(_)
SumWeighted(segments) ==
    IF segments = <<>> THEN [weighted_sum |-> 0, total_duration |-> 0]
    ELSE LET segment == Head(segments)
             duration == segment.endTime - segment.startTime
             rest == SumWeighted(Tail(segments))
         IN  IF Counted(duration)
             THEN [weighted_sum |->
                       rest.weighted_sum + segment.score * duration,
                   total_duration |-> rest.total_duration + duration]
             ELSE rest

\* variant: without a positive duration the first segment's score is returned
calculate_overall_sentiment_First(segments) ==
    IF segments = <<>> THEN [sentiment |-> "neutral", num |-> 0, den |-> 1]
    ELSE LET s == SumWeighted(segments)
         IN  IF s.total_duration = 0
             THEN [sentiment |-> Bucket(1000 * segments[1].score,
                                        1024 * settings.neutral_range[1],
                                        1024 * settings.neutral_range[2]),
                   num |-> segments[1].score, den |-> 1]
             ELSE [sentiment |->
                       Bucket(1000 * s.weighted_sum,
                              1024 * settings.neutral_range[1]
                                  * s.total_duration,
                              1024 * settings.neutral_range[2]
                                  * s.total_duration),
                   num |-> s.weighted_sum, den |-> s.total_duration]

calculate_overall_sentiment(segments) ==
    IF segments = <<>> THEN [sentiment |-> "neutral", num |-> 0, den |-> 1]
    ELSE LET s == SumWeighted(segments)
         IN  IF s.total_duration = 0
             THEN [sentiment |-> "neutral", num |-> 0, den |-> 1]
             ELSE [sentiment |->
                       Bucket(1000 * s.weighted_sum,
                              1024 * settings.neutral_range[1]
                                  * s.total_duration,
                              1024 * settings.neutral_range[2]
                                  * s.total_duration),
                   num |-> s.weighted_sum, den |-> s.total_duration]

(***************************************************************************)
(* detect_escalation: the scan over all pairs i < j in iteration order.    *)
(* The details carry maxDrop, startScore and endScore rounded to           *)
(* thousandths, duration rounded to hundredths of a second, and startTime  *)
(* and endTime as the segments have them.                                  *)
(***************************************************************************)
RECURSIVE ScanDrops(_, _, _, _)
ScanDrops(scores, i, j, best) ==
    IF i > Len(scores) THEN best
    ELSE IF j > Len(scores) THEN ScanDrops(scores, i + 1, i + 2, best)
    ELSE LET drop == scores[i] - scores[j]
         IN  ScanDrops(scores, i, j + 1,
                       IF drop > best.max_drop
                       THEN [max_drop |-> drop, drop_start_idx |-> i,
                             drop_end_idx |-> j]
                       ELSE best)

\* None where the payload carries no details
NoDetails == [none |-> TRUE]

\* the empty dict detect_escalation returns when nothing is detected
EmptyDetails == [empty |-> TRUE]

\* variant: only the empty list returns early
detect_escalation_Off(segments) ==
    IF Len(segments) < 1
    THEN [escalation_detected |-> FALSE,
          escalation_details |-> EmptyDetails]
    ELSE LET scores == [k \in DOMAIN segments |-> segments[k].score]
             b == ScanDrops(scores, 1, 2,
                            [max_drop |-> 0, drop_start_idx |-> 1,
                             drop_end_idx |-> 1])
             detected ==
                 1000 * b.max_drop >= 1024 * settings.escalation_threshold
         IN  [escalation_detected |-> detected,
              escalation_details |->
                 IF detected
                 THEN [maxDrop |-> Round(b.max_drop, 1024, 1000),
                       startTime |-> segments[b.drop_start_idx].startTime,
                       endTime |-> segments[b.drop_end_idx].endTime,
                       startScore |->
                           Round(scores[b.drop_start_idx], 1024, 1000),
                       endScore |-> Round(scores[b.drop_end_idx], 1024, 1000),
                       duration |->
                           Round(segments[b.drop_end_idx].endTime
                                 - segments[b.drop_start_idx].startTime,
                                 8, 100)]
                 ELSE EmptyDetails]

detect_escalation(segments) ==
    IF Len(segments) < 2
    THEN [escalation_detected |-> FALSE,
          escalation_details |-> EmptyDetails]
    ELSE LET scores == [k \in DOMAIN segments |-> segments[k].score]
             b == ScanDrops(scores, 1, 2,
                            [max_drop |-> 0, drop_start_idx |-> 1,
                             drop_end_idx |-> 1])
             detected ==
                 1000 * b.max_drop >= 1024 * settings.escalation_threshold
         IN  [escalation_detected |-> detected,
              escalation_details |->
                 IF detected
                 THEN [maxDrop |-> Round(b.max_drop, 1024, 1000),
                       startTime |-> segments[b.drop_start_idx].startTime,
                       endTime |-> segments[b.drop_end_idx].endTime,
                       startScore |->
                           Round(scores[b.drop_start_idx], 1024, 1000),
                       endScore |-> Round(scores[b.drop_end_idx], 1024, 1000),
                       duration |->
                           Round(segments[b.drop_end_idx].endTime
                                 - segments[b.drop_start_idx].startTime,
                                 8, 100)]
                 ELSE EmptyDetails]

\* variant: the details the detector returned are passed on as they are
PayloadDetails_Always(esc) == esc.escalation_details

\* "escalation_details if escalation_detected else None"
PayloadDetails(esc) ==
    IF esc.escalation_detected THEN esc.escalation_details ELSE NoDetails

\* round(overall_score, 3): the score the payload carries, in thousandths
PayloadScore(overall) == Round(overall.num, 1024 * overall.den, 1000)

\* variant: the correlation id is generated anew
BuildSentimentEvent_Regen(event, uuid, use_fallback, throws) ==
    LET call_id == event.aggregateId
        sentiment_segments ==
            analyze_segments(event.payload.segments, use_fallback, throws)
        overall == calculate_overall_sentiment(sentiment_segments)
        esc == detect_escalation(sentiment_segments)
    IN  [eventId |-> uuid,
         eventType |-> "SentimentAnalyzed",
         aggregateId |-> call_id,
         causationId |-> event.eventId,
         correlationId |-> uuid + 1,
         metadata |-> [service |-> "sentiment-service",
                       usedFallback |-> use_fallback],
         payload |-> [callId |-> call_id,
                      overallSentiment |-> overall.sentiment,
                      sentimentScore |-> PayloadScore(overall),
                      segments |-> sentiment_segments,
                      escalationDetected |-> esc.escalation_detected,
                      escalationDetails |-> PayloadDetails(esc)]]

(***************************************************************************)
(* The SentimentAnalyzed event process_single_event builds for event;      *)
(* uuid is the value uuid4() returns.  escalationDetails is NoDetails      *)
(* where the code passes None.                                             *)
(***************************************************************************)
BuildSentimentEvent(event, uuid, use_fallback, throws) ==
    LET call_id == event.aggregateId
        sentiment_segments ==
            analyze_segments(event.payload.segments, use_fallback, throws)
        overall == calculate_overall_sentiment(sentiment_segments)
        esc == detect_escalation(sentiment_segments)
    IN  [eventId |-> uuid,
         eventType |-> "SentimentAnalyzed",
         aggregateId |-> call_id,
         causationId |-> event.eventId,
         correlationId |-> event.correlationId,
         metadata |-> [service |-> "sentiment-service",
                       usedFallback |-> use_fallback],
         payload |-> [callId |-> call_id,
                      overallSentiment |-> overall.sentiment,
                      sentimentScore |-> PayloadScore(overall),
                      segments |-> sentiment_segments,
                      escalationDetected |-> esc.escalation_detected,
                      escalationDetails |-> PayloadDetails(esc)]]

(***************************************************************************)
(* Transcription side.  The ASR model is external: model.transcribe is a   *)
(* table over the audio locators of the model.  Raw segment times are in   *)
(* 1/64 s, avg_logprob and no_speech_prob in 1/64; the times of the        *)
(* processed segments are in hundredths of a second.                       *)
(***************************************************************************)
\* 1.5 s
PAUSE_THRESHOLD == 96

whisper_transcribe(audio) ==
    IF audio = "u1"
    THEN [text |-> <<" ", "h", "i">>, language |-> "en",
          segments |-> << [start |-> 0, end |-> 129, text |-> <<" ", "h">>,
                           avg_logprob |-> -19, no_speech_prob |-> 6],
                          [start |-> 230, end |-> 320, text |-> <<"i", " ">>,
                           avg_logprob |-> -160, no_speech_prob |-> 3] >>]
    ELSE [text |-> <<"o">>, language |-> "de",
          segments |-> << [start |-> 128, end |-> 128, text |-> <<"o">>,
                           no_speech_prob |-> 38] >>]

\* the test for a speaker change; n is the number of segments processed
SpeakerChange(pause_duration, n) ==
    pause_duration > PAUSE_THRESHOLD /\ n > 0

\* variant: a speaker change always gives the customer
ToggleSpeaker_SetCustomer(current_speaker) == "customer"

\* the other of the two speakers
ToggleSpeaker(current_speaker) ==
    IF current_speaker = "agent" THEN "customer" ELSE "agent"

RECURSIVE Diarize(_, _, _, _)
Diarize(segments, processed, current_speaker, last_end_time) ==
    IF segments = <<>> THEN processed
    ELSE LET segment == Head(segments)
             pause_duration == segment.start - last_end_time
             speaker == IF SpeakerChange(pause_duration, Len(processed))
                        THEN ToggleSpeaker(current_speaker)
                        ELSE current_speaker
         IN  Diarize(Tail(segments),
                     Append(processed,
                            [speaker |-> speaker,
                             startTime |-> Round(segment.start, 64, 100),
                             endTime |-> Round(segment.end, 64, 100),
                             text |-> Strip(segment.text)]),
                     speaker, segment.end)

add_speaker_diarization(segments) == Diarize(segments, <<>>, "agent", 0)

\* variant: the log-probability term is not clamped to [0, 1]
segment_confidence_NoClamp(segment) ==
    LET avg_logprob == IF "avg_logprob" \in DOMAIN segment
                       THEN segment.avg_logprob ELSE -64
        no_speech_prob == IF "no_speech_prob" \in DOMAIN segment
                          THEN segment.no_speech_prob ELSE 32
        logprob_confidence == avg_logprob + 128
        speech_confidence == 2 * (64 - no_speech_prob)
    IN  logprob_confidence + speech_confidence

\* confidence of one raw segment in units of 1/256; the two terms are in
\* units of 1/128
segment_confidence(segment) ==
    LET avg_logprob == IF "avg_logprob" \in DOMAIN segment
                       THEN segment.avg_logprob ELSE -64
        no_speech_prob == IF "no_speech_prob" \in DOMAIN segment
                          THEN segment.no_speech_prob ELSE 32
        logprob_confidence == Max(0, Min(128, avg_logprob + 128))
        speech_confidence == 2 * (64 - no_speech_prob)
    IN  logprob_confidence + speech_confidence

RECURSIVE SumConfidence(_)
SumConfidence(segments) ==
    IF segments = <<>> THEN [plain |-> 0, weighted |-> 0, total_duration |-> 0]
    ELSE LET seg == Head(segments)
             rest == SumConfidence(Tail(segments))
             conf == segment_confidence(seg)
         IN  [plain |-> rest.plain + conf,
              weighted |-> rest.weighted + conf * (seg.end - seg.start),
              total_duration |-> rest.total_duration + (seg.end - seg.start)]

\* the confidence as num / den in thousandths: the rounded quotient with
\* den = 1, or the mean np.mean returns, the double nearest to num / den
calculate_confidence(segments) ==
    IF segments = <<>> THEN [num |-> 0, den |-> 1]
    ELSE LET s == SumConfidence(segments)
         IN  IF s.total_duration = 0
             THEN [num |-> 1000 * s.plain, den |-> 256 * Len(segments)]
             ELSE IF s.total_duration > 0
             THEN [num |-> Round(s.weighted, 256 * s.total_duration, 1000),
                   den |-> 1]
             ELSE [num |-> Round(-s.weighted, -256 * s.total_duration, 1000),
                   den |-> 1]

transcribe(audio) ==
    LET result == whisper_transcribe(audio)
    IN  [full_text |-> Strip(result.text),
         segments |-> add_speaker_diarization(result.segments),
         language |-> result.language,
         confidence |-> calculate_confidence(result.segments)]

(***************************************************************************)
(* The CallTranscribed event process_transcription_events builds; uuid is  *)
(* the value the eventId default factory returns.                          *)
(***************************************************************************)
BuildTranscribedEvent(event, uuid) ==
    LET call_id == event.payload.callId
        transcription == transcribe(event.payload.audioFileUrl)
    IN  [eventId |-> uuid,
         eventType |-> "CallTranscribed",
         aggregateId |-> call_id,
         causationId |-> event.eventId,
         correlationId |-> event.correlationId,
         metadata |-> [userId |-> "system",
                       service |-> "transcription-service"],
         payload |-> [callId |-> call_id,
                      transcription |->
                          [fullText |-> transcription.full_text,
                           segments |-> transcription.segments,
                           language |-> transcription.language,
                           confidence |-> transcription.confidence]]]

(***************************************************************************)
(* The records a poll can return, per service, and their decoding into     *)
(* the pydantic event models.  A record whose required field is absent     *)
(* does not decode; an absent eventId or correlationId of a CallReceived   *)
(* record is filled by the default factory.                                *)
(***************************************************************************)
NoPayload == [none |-> TRUE]

SegG == [startTime |-> 0, endTime |-> 40, text |-> <<"g">>, speaker |-> "agent"]
SegB == [startTime |-> 40, endTime |-> 120, text |-> <<" ", "b">>,
         speaker |-> "customer"]
SegBlank == [startTime |-> 120, endTime |-> 128, text |-> <<" ">>,
             speaker |-> "agent"]

\* a complete CallReceived payload for the call call_id with audio at url
ReceivedPayload(call_id, url) ==
    [callId |-> call_id, callerId |-> "c", agentId |-> "ag",
     channel |-> "voice", startTime |-> "t", audioFileUrl |-> url,
     audioFormat |-> "wav", audioFileSize |-> 1]

\* a CallTranscribed payload as the sentiment service reads it
TranscribedPayload(call_id, segments) ==
    [callId |-> call_id, transcription |-> <<"t">>, segments |-> segments,
     duration |-> 128]

RawMsgs(s) ==
    IF s = "sentiment"
    THEN { [eventId |-> 1, correlationId |-> 11, causationId |-> 5,
            aggregateId |-> "a",
            payload |-> TranscribedPayload("a", <<SegG, SegB>>)],
           [eventId |-> 2, correlationId |-> 12, causationId |-> 6,
            aggregateId |-> "a",
            payload |-> TranscribedPayload("b", <<SegBlank>>)],
           [eventId |-> 3, correlationId |-> 11, causationId |-> 0,
            aggregateId |-> "b",
            payload |-> TranscribedPayload("b", <<>>)],
           [eventId |-> 4, correlationId |-> 12, causationId |-> 8,
            aggregateId |-> MissingStr,
            payload |-> NoPayload] }
    ELSE { [eventId |-> 1, correlationId |-> 11, causationId |-> 0,
            aggregateId |-> "a",
            payload |-> ReceivedPayload("a", "u1")],
           [eventId |-> 0, correlationId |-> 0, causationId |-> 0,
            aggregateId |-> "a",
            payload |-> ReceivedPayload("b", "u2")],
           [eventId |-> 3, correlationId |-> 12, causationId |-> 0,
            aggregateId |-> MissingStr,
            payload |-> ReceivedPayload("b", "u1")],
           [eventId |-> 4, correlationId |-> 12, causationId |-> 0,
            aggregateId |-> "b",
            payload |-> [callId |-> "b", audioFileUrl |-> "u1"]] }

\* the fields CallReceivedPayload declares without a default
CallReceivedPayloadFields ==
    {"callId", "callerId", "agentId", "channel", "startTime", "audioFileUrl",
     "audioFormat", "audioFileSize"}

\* CallReceivedEvent(**event_data) validates
DecodableCallReceived(m) ==
    /\ m.aggregateId # MissingStr
    /\ m.payload # NoPayload
    /\ CallReceivedPayloadFields \subseteq DOMAIN m.payload

\* CallTranscribedEvent(**event_data) of the sentiment service validates;
\* causationId is optional (null for a root event, 0 here)
DecodableCallTranscribed(m) ==
    /\ m.aggregateId # MissingStr
    /\ m.correlationId # 0
    /\ m.payload # NoPayload
    /\ {"callId", "transcription", "segments", "duration"}
           \subseteq DOMAIN m.payload

Decodable(s, m) ==
    IF s = "sentiment" THEN DecodableCallTranscribed(m)
    ELSE DecodableCallReceived(m)

\* number of uuid4() calls the default factories make while decoding m
DecodeUuids(m) ==
    (IF m.eventId = 0 THEN 1 ELSE 0) + (IF m.correlationId = 0 THEN 1 ELSE 0)

\* the event model built from a decodable record; uuid is the next uuid4()
Decode(m, uuid) ==
    [m EXCEPT !.eventId = IF m.eventId = 0 THEN uuid ELSE m.eventId,
              !.correlationId =
                  IF m.correlationId # 0 THEN m.correlationId
                  ELSE IF m.eventId = 0 THEN uuid + 1 ELSE uuid]

Batches(s, n) ==
    UNION { [1..k -> RawMsgs(s)] : k \in 1..Min(MaxBatch, n) }

(***************************************************************************)
(* The publish operations of the two KafkaService classes.  prod is the    *)
(* producer field ("none", "open" or "closed"), outcome is what send and   *)
(* the wait for the acknowledgment do, created tells whether               *)
(* create_producer succeeds.  ret is "true", "false" or "raise".           *)
(***************************************************************************)
PublishOutcomes == {"ack", "send_error", "timeout"}

\* the operations a publish makes on a producer that exists: send, and the
\* wait for the acknowledgment when send returned a future
publish_ops(prod, outcome) ==
    IF prod = "none" THEN <<>>
    ELSE IF prod = "closed" \/ outcome = "send_error"
    THEN <<"producer.send">>
    ELSE <<"producer.send", "future.get">>

\* variant: publish_sentiment does not wait for the acknowledgment
publish_sentiment_NoWait(prod, outcome) ==
    IF prod = "none"
    THEN [ret |-> "raise", producer |-> prod, ops |-> <<>>]
    ELSE IF prod = "open" /\ outcome \in {"ack", "timeout"}
    THEN [ret |-> "true", producer |-> prod,
          ops |-> publish_ops(prod, outcome)]
    ELSE [ret |-> "false", producer |-> prod,
          ops |-> publish_ops(prod, outcome)]

publish_sentiment(prod, outcome) ==
    IF prod = "none"
    THEN [ret |-> "raise", producer |-> prod, ops |-> <<>>]
    ELSE IF prod = "open" /\ outcome = "ack"
    THEN [ret |-> "true", producer |-> prod,
          ops |-> publish_ops(prod, outcome)]
    ELSE [ret |-> "false", producer |-> prod,
          ops |-> publish_ops(prod, outcome)]

publish_call_transcribed(prod, created, outcome) ==
    IF prod = "none" /\ ~created
    THEN [ret |-> "raise", producer |-> prod, ops |-> <<>>]
    ELSE LET p == IF prod = "none" THEN "open" ELSE prod
         IN  IF p = "open" /\ outcome = "ack"
             THEN [ret |-> "true", producer |-> p,
                   ops |-> publish_ops(p, outcome)]
             ELSE [ret |-> "false", producer |-> p,
                   ops |-> publish_ops(p, outcome)]

\* variant: consume_transcribed enters its loop without a consumer
consume_transcribed_enter_Unchecked(cons) == "loop"

\* the test at the head of consume_transcribed of the sentiment service
consume_transcribed_enter(cons) ==
    IF cons = "none" THEN "raise" ELSE "loop"

DecodableTranscribed(m) == Decodable("sentiment", m)

\* the first step of the generator consume_transcribed when the first poll
\* returns the records b: what the step ends with, the event it yields and
\* the operations made on the consumer
consume_transcribed_first(cons, b) ==
    IF consume_transcribed_enter(cons) = "raise"
    THEN [ret |-> "raise", yielded |-> <<>>, ops |-> <<>>]
    ELSE LET dec == SelectSeq(b, DecodableTranscribed)
         IN  [ret |-> IF dec # <<>> THEN "yield"
                      ELSE IF b = <<>> THEN "sleep" ELSE "poll",
              yielded |-> IF dec # <<>> THEN <<Head(dec)>> ELSE <<>>,
              ops |-> <<"consumer.poll">>]

\* variant: the producer is closed before it is flushed
close_CloseFirst(s, cons, prod) ==
    [consumer |-> IF cons = "none" THEN "none"
                  ELSE IF s = "sentiment" THEN "closed" ELSE "none",
     producer |-> IF prod = "none" THEN "none"
                  ELSE IF s = "sentiment" THEN "closed" ELSE "none",
     log |-> (IF cons # "none" THEN <<"consumer.close">> ELSE <<>>)
             \o (IF prod # "none"
                 THEN <<"producer.close", "producer.flush">> ELSE <<>>)]

\* KafkaService.close of service s on the handles cons and prod: the
\* handles afterwards and the operations made on the connections
close(s, cons, prod) ==
    [consumer |-> IF cons = "none" THEN "none"
                  ELSE IF s = "sentiment" THEN "closed" ELSE "none",
     producer |-> IF prod = "none" THEN "none"
                  ELSE IF s = "sentiment" THEN "closed" ELSE "none",
     log |-> (IF cons # "none" THEN <<"consumer.close">> ELSE <<>>)
             \o (IF prod # "none"
                 THEN <<"producer.flush", "producer.close">> ELSE <<>>)]

\* variant: a successful load returns the analyzer to the primary engine
load_model_Reset(a, ok) ==
    IF ok
    THEN [a EXCEPT !.roberta_pipeline = "loaded", !.model_loaded = TRUE,
                   !.use_vader_fallback = FALSE]
    ELSE [a EXCEPT !.use_vader_fallback = TRUE, !.model_loaded = TRUE]

(***************************************************************************)
(* SentimentAnalyzer.load_model: never raises; a failed load switches the  *)
(* analyzer to the fallback engine.                                        *)
(***************************************************************************)
load_model(a, ok) ==
    IF ok
    THEN [a EXCEPT !.roberta_pipeline = "loaded", !.model_loaded = TRUE]
    ELSE [a EXCEPT !.use_vader_fallback = TRUE, !.model_loaded = TRUE]

\* variant: load_model loads the model again when one is loaded already
whisper_load_model_Reload(model, ok) ==
    IF ok
    THEN [model |-> "loaded", attempted |-> TRUE, raised |-> FALSE]
    ELSE [model |-> model, attempted |-> TRUE, raised |-> TRUE]

(***************************************************************************)
(* WhisperService.load_model on the model field; ok tells whether          *)
(* whisper.load_model succeeds.  attempted: whisper.load_model was called; *)
(* raised: the call re-raised the failure.                                 *)
(***************************************************************************)
whisper_load_model(model, ok) ==
    IF model # "none"
    THEN [model |-> model, attempted |-> FALSE, raised |-> FALSE]
    ELSE IF ok
    THEN [model |-> "loaded", attempted |-> TRUE, raised |-> FALSE]
    ELSE [model |-> "none", attempted |-> TRUE, raised |-> TRUE]

\* the calls of a sequence of load_model and transcribe calls, each with
\* the model field before and after it; transcribe starts with load_model
RECURSIVE WhisperCalls(_, _)
WhisperCalls(model, calls) ==
    IF calls = <<>> THEN <<>>
    ELSE LET c == Head(calls)
             r == whisper_load_model(model, c.ok)
         IN  <<[op |-> c.op, before |-> model, attempted |-> r.attempted,
                raised |-> r.raised, after |-> r.model]>>
             \o WhisperCalls(r.model, Tail(calls))

(***************************************************************************)
(* Control.                                                                *)
(***************************************************************************)
\* variant: the processing of an event is an await point as well
Suspended_InProcess == pc \in {"idle", "retry", "process"}

\* the task is parked at one of the asyncio.sleep calls of the generator
Suspended == pc \in {"idle", "retry"}

\* asyncio.create_task has scheduled the task, its first step is to come
NotStarted == pc = "init"

\* the task has returned or was cancelled
Finished == pc \in {"done", "cancelled"}

\* variant: a failing poll leaves the while loop
AfterPollError_Fatal == "done"

\* where the generator goes after the except clause around the poll
AfterPollError == "retry"

\* variant: an exception of one event ends the task
AfterProcessingError_Fatal == "done"

\* where the task goes after the per-event except clause
AfterProcessingError == "batch"

\* log, throws: engine calls of the analysis; tmp: a temporary file exists;
\* attempts: calls of the publish operation made for the event
NoWork == [log |-> <<>>, throws |-> <<>>, tmp |-> FALSE, attempts |-> 0]

\* the state after construction, but for the service and its settings
InitState ==
    /\ lifespan = "startup"
    /\ pc = "nostart"
    /\ stage = "none"
    /\ batch = <<>>
    /\ polled = <<>>
    /\ yieldedOfBatch = <<>>
    /\ cur = NoEvent
    /\ work = NoWork
    /\ out = NoEvent
    /\ published = <<>>
    /\ consumer = "none"
    /\ producer = "none"
    /\ processing_active = FALSE
    /\ cancelRequested = FALSE
    /\ drainTimer = "off"
    /\ analyzer = [roberta_pipeline |-> "none", model_loaded |-> FALSE,
                   use_vader_fallback |-> FALSE]
    /\ whisperModel = "none"
    /\ health = [model_loaded |-> FALSE, kafka_consumer_ready |-> FALSE,
                 kafka_producer_ready |-> FALSE]
    /\ tempFiles = 0
    /\ nextUuid = 100
    /\ delivered = 0
    /\ errors = 0
    /\ consecFail = 0
    /\ loadFailed = FALSE
    /\ loads = 0
    /\ idleSinceShutdown = FALSE
    /\ connLog = <<>>
    /\ call = NoCall

Init ==
    /\ svc \in {"sentiment", "transcription"}
    /\ settings = DefaultSettings
    /\ InitState

(***************************************************************************)
(* Startup part of lifespan.  It has no await: it runs as one step.        *)
(***************************************************************************)
StartupSentiment ==
    /\ svc = "sentiment"
    /\ lifespan = "startup"
    /\ \E loadOk \in BOOLEAN, consOk \in BOOLEAN, prodOk \in BOOLEAN :
          /\ analyzer' = load_model(analyzer, loadOk)
          /\ loadFailed' = ~loadOk
          /\ consumer' = IF consOk THEN "open" ELSE "none"
          /\ producer' = IF consOk /\ prodOk THEN "open" ELSE "none"
          /\ health' = [model_loaded |-> analyzer'.model_loaded,
                        kafka_consumer_ready |-> consOk /\ prodOk,
                        kafka_producer_ready |-> consOk /\ prodOk]
    /\ pc' = "init"
    /\ lifespan' = "serving"
    /\ UNCHANGED <<svc, settings, call, stage, batch, polled, yieldedOfBatch,
                   cur, work, out, published, processing_active,
                   cancelRequested, drainTimer, whisperModel, tempFiles,
                   nextUuid, delivered, errors, consecFail, loads,
                   idleSinceShutdown, connLog>>

StartupTranscription ==
    /\ svc = "transcription"
    /\ lifespan = "startup"
    /\ \E loadOk \in BOOLEAN :
          whisperModel' = whisper_load_model(whisperModel, loadOk).model
    /\ pc' = "init"
    /\ lifespan' = "serving"
    /\ UNCHANGED <<svc, settings, call, stage, batch, polled, yieldedOfBatch,
                   cur, work, out, published, consumer, producer,
                   processing_active, cancelRequested, drainTimer, analyzer,
                   health, tempFiles, nextUuid, delivered, errors, consecFail,
                   loadFailed, loads, idleSinceShutdown, connLog>>

\* variant: the sentiment task creates the consumer it finds missing
TaskStart_Reinit ==
    /\ pc = "init"
    /\ IF cancelRequested
       THEN /\ pc' = "cancelled"
            /\ UNCHANGED <<consumer, processing_active>>
       ELSE IF svc = "sentiment"
       THEN /\ pc' = "poll"
            /\ consumer' = "open"
            /\ UNCHANGED processing_active
       ELSE \E created \in BOOLEAN :
               IF consumer # "none"
               THEN /\ pc' = "poll"
                    /\ processing_active' = TRUE
                    /\ UNCHANGED consumer
               ELSE IF created
               THEN /\ pc' = "poll"
                    /\ processing_active' = TRUE
                    /\ consumer' = "open"
               ELSE /\ pc' = "done"
                    /\ processing_active' = FALSE
                    /\ UNCHANGED consumer
    /\ UNCHANGED <<svc, settings, call, lifespan, stage, batch, polled,
                   yieldedOfBatch, cur, work, out, published, producer,
                   cancelRequested, drainTimer, analyzer, whisperModel, health,
                   tempFiles, nextUuid, delivered, errors, consecFail,
                   loadFailed, loads, idleSinceShutdown, connLog>>

(***************************************************************************)
(* First step of the background task, up to the first poll.                *)
(***************************************************************************)
TaskStart ==
    /\ pc = "init"
    /\ IF cancelRequested
       THEN /\ pc' = "cancelled"
            /\ UNCHANGED <<consumer, processing_active>>
       ELSE IF svc = "sentiment"
       THEN /\ pc' = IF consume_transcribed_enter(consumer) = "raise"
                       THEN "done" ELSE "poll"
            /\ UNCHANGED <<consumer, processing_active>>
       ELSE \E created \in BOOLEAN :
               IF consumer # "none"
               THEN /\ pc' = "poll"
                    /\ processing_active' = TRUE
                    /\ UNCHANGED consumer
               ELSE IF created
               THEN /\ pc' = "poll"
                    /\ processing_active' = TRUE
                    /\ consumer' = "open"
               ELSE /\ pc' = "done"
                    /\ processing_active' = FALSE
                    /\ UNCHANGED consumer
    /\ UNCHANGED <<svc, settings, call, lifespan, stage, batch, polled,
                   yieldedOfBatch, cur, work, out, published, producer,
                   cancelRequested, drainTimer, analyzer, whisperModel, health,
                   tempFiles, nextUuid, delivered, errors, consecFail,
                   loadFailed, loads, idleSinceShutdown, connLog>>

(***************************************************************************)
(* The consume generator: poll, iterate the batch, sleep.                  *)
(***************************************************************************)
PollBatch ==
    /\ pc = "poll"
    /\ delivered < MaxMsgs
    /\ \E b \in Batches(svc, MaxMsgs - delivered) :
          /\ batch' = b
          /\ polled' = b
          /\ delivered' = delivered + Len(b)
    /\ yieldedOfBatch' = <<>>
    /\ pc' = "batch"
    /\ consecFail' = 0
    /\ UNCHANGED <<svc, settings, call, lifespan, stage, cur, work, out,
                   published, consumer, producer, processing_active,
                   cancelRequested, drainTimer, analyzer, whisperModel, health,
                   tempFiles, nextUuid, errors, loadFailed, loads,
                   idleSinceShutdown, connLog>>

PollEmpty ==
    /\ pc = "poll"
    /\ pc' = "idle"
    /\ consecFail' = 0
    /\ idleSinceShutdown' = (idleSinceShutdown \/ lifespan = "await")
    /\ UNCHANGED <<svc, settings, call, lifespan, stage, batch, polled,
                   yieldedOfBatch, cur, work, out, published, consumer,
                   producer, processing_active, cancelRequested, drainTimer,
                   analyzer, whisperModel, health, tempFiles, nextUuid,
                   delivered, errors, loadFailed, loads, connLog>>

PollError ==
    /\ pc = "poll"
    /\ pc' = AfterPollError
    /\ consecFail' = Min(consecFail + 1, FailCap)
    /\ UNCHANGED <<svc, settings, call, lifespan, stage, batch, polled,
                   yieldedOfBatch, cur, work, out, published, consumer,
                   producer, processing_active, cancelRequested, drainTimer,
                   analyzer, whisperModel, health, tempFiles, nextUuid,
                   delivered, errors, loadFailed, loads, idleSinceShutdown,
                   connLog>>

\* KeyboardInterrupt: break, then the finally clause of the generator
PollInterrupt ==
    /\ pc = "poll"
    /\ pc' = "done"
    /\ consecFail' = 0
    /\ IF svc = "transcription"
       THEN /\ consumer' = "none"
            /\ connLog' = IF consumer # "none"
                          THEN Append(connLog, "consumer.close") ELSE connLog
            /\ processing_active' = FALSE
       ELSE UNCHANGED <<consumer, connLog, processing_active>>
    /\ UNCHANGED <<svc, settings, call, lifespan, stage, batch, polled,
                   yieldedOfBatch, cur, work, out, published, producer,
                   cancelRequested, drainTimer, analyzer, whisperModel, health,
                   tempFiles, nextUuid, delivered, errors, loadFailed, loads,
                   idleSinceShutdown>>

BatchEnd ==
    /\ pc = "batch"
    /\ batch = <<>>
    /\ pc' = "poll"
    /\ UNCHANGED <<svc, settings, call, lifespan, stage, batch, polled,
                   yieldedOfBatch, cur, work, out, published, consumer,
                   producer, processing_active, cancelRequested, drainTimer,
                   analyzer, whisperModel, health, tempFiles, nextUuid,
                   delivered, errors, consecFail, loadFailed, loads,
                   idleSinceShutdown, connLog>>

\* variant: a record that does not parse ends the iteration of the batch
SkipUndecodable_Abort ==
    /\ pc = "batch"
    /\ batch # <<>>
    /\ ~Decodable(svc, Head(batch))
    /\ batch' = <<>>
    /\ UNCHANGED <<svc, settings, call, lifespan, pc, stage, polled,
                   yieldedOfBatch, cur, work, out, published, consumer,
                   producer, processing_active, cancelRequested, drainTimer,
                   analyzer, whisperModel, health, tempFiles, nextUuid,
                   delivered, errors, consecFail, loadFailed, loads,
                   idleSinceShutdown, connLog>>

\* the except clause around the parse: log and continue with the next record
SkipUndecodable ==
    /\ pc = "batch"
    /\ batch # <<>>
    /\ ~Decodable(svc, Head(batch))
    /\ batch' = Tail(batch)
    /\ UNCHANGED <<svc, settings, call, lifespan, pc, stage, polled,
                   yieldedOfBatch, cur, work, out, published, consumer,
                   producer, processing_active, cancelRequested, drainTimer,
                   analyzer, whisperModel, health, tempFiles, nextUuid,
                   delivered, errors, consecFail, loadFailed, loads,
                   idleSinceShutdown, connLog>>

\* variant: the records of a batch are yielded from the last to the first
YieldEvent_Last ==
    /\ pc = "batch"
    /\ batch # <<>>
    /\ Decodable(svc, batch[Len(batch)])
    /\ batch' = SubSeq(batch, 1, Len(batch) - 1)
    /\ yieldedOfBatch' = Append(yieldedOfBatch, batch[Len(batch)])
    /\ nextUuid' = nextUuid + DecodeUuids(batch[Len(batch)])
    /\ IF svc = "transcription" /\ ~processing_active
       THEN /\ pc' = "done"
            /\ UNCHANGED <<cur, stage, work>>
       ELSE /\ pc' = "process"
            /\ cur' = Decode(batch[Len(batch)], nextUuid)
            /\ stage' = IF svc = "sentiment" THEN "analyze" ELSE "download"
            /\ work' = NoWork
    /\ UNCHANGED <<svc, settings, call, lifespan, polled, out, published,
                   consumer, producer, processing_active, cancelRequested,
                   drainTimer, analyzer, whisperModel, health, tempFiles,
                   delivered, errors, consecFail, loadFailed, loads,
                   idleSinceShutdown, connLog>>

\* the record parses and is yielded to the body of the async for
YieldEvent ==
    /\ pc = "batch"
    /\ batch # <<>>
    /\ Decodable(svc, Head(batch))
    /\ batch' = Tail(batch)
    /\ yieldedOfBatch' = Append(yieldedOfBatch, Head(batch))
    /\ nextUuid' = nextUuid + DecodeUuids(Head(batch))
    /\ IF svc = "transcription" /\ ~processing_active
       THEN /\ pc' = "done"
            /\ UNCHANGED <<cur, stage, work>>
       ELSE /\ pc' = "process"
            /\ cur' = Decode(Head(batch), nextUuid)
            /\ stage' = IF svc = "sentiment" THEN "analyze" ELSE "download"
            /\ work' = NoWork
    /\ UNCHANGED <<svc, settings, call, lifespan, polled, out, published,
                   consumer, producer, processing_active, cancelRequested,
                   drainTimer, analyzer, whisperModel, health, tempFiles,
                   delivered, errors, consecFail, loadFailed, loads,
                   idleSinceShutdown, connLog>>

\* the consume generator the transcription loop left at its yield is
\* finalised (aclose): its finally clause closes the consumer
GeneratorFinalize ==
    /\ svc = "transcription"
    /\ pc = "done"
    /\ consumer = "open"
    /\ consumer' = "none"
    /\ connLog' = Append(connLog, "consumer.close")
    /\ UNCHANGED <<svc, settings, call, lifespan, pc, stage, batch, polled,
                   yieldedOfBatch, cur, work, out, published, producer,
                   processing_active, cancelRequested, drainTimer, analyzer,
                   whisperModel, health, tempFiles, nextUuid, delivered,
                   errors, consecFail, loadFailed, loads, idleSinceShutdown>>

\* the task wakes from asyncio.sleep; a requested cancellation is raised there
Resume ==
    /\ Suspended
    /\ IF cancelRequested
       THEN /\ pc' = "cancelled"
            /\ IF svc = "transcription"
               THEN /\ consumer' = "none"
                    /\ connLog' = IF consumer # "none"
                                  THEN Append(connLog, "consumer.close")
                                  ELSE connLog
                    /\ processing_active' = FALSE
               ELSE UNCHANGED <<consumer, connLog, processing_active>>
       ELSE /\ pc' = "poll"
            /\ UNCHANGED <<consumer, connLog, processing_active>>
    /\ UNCHANGED <<svc, settings, call, lifespan, stage, batch, polled,
                   yieldedOfBatch, cur, work, out, published, producer,
                   cancelRequested, drainTimer, analyzer, whisperModel, health,
                   tempFiles, nextUuid, delivered, errors, consecFail,
                   loadFailed, loads, idleSinceShutdown>>

(***************************************************************************)
(* process_single_event of the sentiment service.                          *)
(***************************************************************************)
\* variant: an event without segments is analysed and published like any other
HasNoSegments_Never(segments) == FALSE

\* the test "if not segments" of process_single_event
HasNoSegments(segments) == segments = <<>>

\* analysis, aggregation, escalation detection and envelope construction;
\* raises tells whether one of these steps raises
AnalyzeSentiment ==
    /\ svc = "sentiment"
    /\ pc = "process"
    /\ stage = "analyze"
    /\ LET segments == cur.payload.segments
       IN  IF HasNoSegments(segments)
           THEN /\ pc' = "batch"
                /\ stage' = "none"
                /\ cur' = NoEvent
                /\ UNCHANGED <<work, out, nextUuid, errors>>
           ELSE \E throws \in [DOMAIN segments -> BOOLEAN], raises \in BOOLEAN :
                   /\ analyzer.use_vader_fallback =>
                         \A i \in DOMAIN segments : ~throws[i]
                   /\ IF raises
                      THEN /\ errors' = errors + 1
                           /\ pc' = AfterProcessingError
                           /\ stage' = "none"
                           /\ cur' = NoEvent
                           /\ UNCHANGED <<work, out, nextUuid>>
                      ELSE /\ work' = [log |-> analyze_log(segments,
                                           analyzer.use_vader_fallback, throws),
                                       throws |-> throws,
                                       tmp |-> FALSE,
                                       attempts |-> 0]
                           /\ out' = BuildSentimentEvent(cur, nextUuid,
                                        analyzer.use_vader_fallback, throws)
                           /\ nextUuid' = nextUuid + 1
                           /\ stage' = "publish"
                           /\ UNCHANGED <<pc, cur, errors>>
    /\ UNCHANGED <<svc, settings, call, lifespan, batch, polled,
                   yieldedOfBatch, published, consumer, producer,
                   processing_active, cancelRequested, drainTimer, analyzer,
                   whisperModel, health, tempFiles, delivered, consecFail,
                   loadFailed, loads, idleSinceShutdown, connLog>>

\* variant: process_single_event calls publish_sentiment again after a
\* publish that returned false
PublishSentiment_Retry ==
    /\ svc = "sentiment"
    /\ pc = "process"
    /\ stage = "publish"
    /\ \E outcome \in PublishOutcomes :
          LET r == publish_sentiment(producer, outcome)
          IN  /\ published' = IF r.ret = "true"
                              THEN Append(published,
                                          [event |-> out, trigger |-> cur])
                              ELSE published
              /\ errors' = IF r.ret = "raise" THEN errors + 1 ELSE errors
              /\ IF r.ret = "false" /\ work.attempts = 0
                 THEN /\ work' = [work EXCEPT !.attempts = @ + 1]
                      /\ UNCHANGED <<pc, stage, cur, out>>
                 ELSE /\ pc' = IF r.ret = "raise" THEN AfterProcessingError
                               ELSE "batch"
                      /\ stage' = "none"
                      /\ cur' = NoEvent
                      /\ out' = NoEvent
                      /\ work' = [NoWork EXCEPT
                                     !.attempts = work.attempts + 1]
    /\ UNCHANGED <<svc, settings, call, lifespan, batch, polled, yieldedOfBatch,
                   consumer, producer, processing_active, cancelRequested,
                   drainTimer, analyzer, whisperModel, health, tempFiles,
                   nextUuid, delivered, consecFail, loadFailed, loads,
                   idleSinceShutdown, connLog>>

\* publish_sentiment and the rest of process_single_event
PublishSentiment ==
    /\ svc = "sentiment"
    /\ pc = "process"
    /\ stage = "publish"
    /\ \E outcome \in PublishOutcomes :
          LET r == publish_sentiment(producer, outcome)
          IN  /\ published' = IF r.ret = "true"
                              THEN Append(published,
                                          [event |-> out, trigger |-> cur])
                              ELSE published
              /\ errors' = IF r.ret = "raise" THEN errors + 1 ELSE errors
              /\ pc' = IF r.ret = "raise" THEN AfterProcessingError
                       ELSE "batch"
    /\ stage' = "none"
    /\ cur' = NoEvent
    /\ out' = NoEvent
    /\ work' = [NoWork EXCEPT !.attempts = work.attempts + 1]
    /\ UNCHANGED <<svc, settings, call, lifespan, batch, polled, yieldedOfBatch,
                   consumer, producer, processing_active, cancelRequested,
                   drainTimer, analyzer, whisperModel, health, tempFiles,
                   nextUuid, delivered, consecFail, loadFailed, loads,
                   idleSinceShutdown, connLog>>

\* SentimentAnalyzer.load_model called again after startup
LoadModelAgain ==
    /\ svc = "sentiment"
    /\ lifespan = "serving"
    /\ Suspended \/ Finished
    /\ loads < MaxLoads
    /\ loads' = loads + 1
    /\ \E ok \in BOOLEAN :
          /\ analyzer' = load_model(analyzer, ok)
          /\ loadFailed' = (loadFailed \/ ~ok)
    /\ UNCHANGED <<svc, settings, call, lifespan, pc, stage, batch, polled,
                   yieldedOfBatch, cur, work, out, published, consumer,
                   producer, processing_active, cancelRequested, drainTimer,
                   whisperModel, health, tempFiles, nextUuid, delivered,
                   errors, consecFail, idleSinceShutdown, connLog>>

(***************************************************************************)
(* Body of the async for of process_transcription_events.                  *)
(***************************************************************************)
\* minio_service.download_file
Download ==
    /\ svc = "transcription"
    /\ pc = "process"
    /\ stage = "download"
    /\ \E o \in {"ok", "fail_before", "fail_after"} :
          IF o = "ok"
          THEN /\ tempFiles' = tempFiles + 1
               /\ work' = [work EXCEPT !.tmp = TRUE]
               /\ stage' = "transcribe"
               /\ UNCHANGED <<pc, cur, errors>>
          ELSE /\ tempFiles' = IF o = "fail_after" THEN tempFiles + 1
                               ELSE tempFiles
               /\ errors' = errors + 1
               /\ pc' = AfterProcessingError
               /\ stage' = "none"
               /\ cur' = NoEvent
               /\ UNCHANGED work
    /\ UNCHANGED <<svc, settings, call, lifespan, batch, polled,
                   yieldedOfBatch, out, published, consumer, producer,
                   processing_active, cancelRequested, drainTimer, analyzer,
                   whisperModel, health, nextUuid, delivered, consecFail,
                   loadFailed, loads, idleSinceShutdown, connLog>>

\* whisper_service.transcribe and the construction of the output event
Transcribe ==
    /\ svc = "transcription"
    /\ pc = "process"
    /\ stage = "transcribe"
    /\ \E loadOk \in BOOLEAN, ok \in BOOLEAN :
          /\ whisperModel' = whisper_load_model(whisperModel, loadOk).model
          /\ IF whisperModel' = "loaded" /\ ok
             THEN /\ out' = BuildTranscribedEvent(cur, nextUuid)
                  /\ nextUuid' = nextUuid + 1
                  /\ stage' = "publish"
                  /\ UNCHANGED <<pc, cur, errors, tempFiles, work>>
             ELSE /\ tempFiles' = tempFiles - 1
                  /\ work' = NoWork
                  /\ errors' = errors + 1
                  /\ pc' = AfterProcessingError
                  /\ stage' = "none"
                  /\ cur' = NoEvent
                  /\ UNCHANGED <<out, nextUuid>>
    /\ UNCHANGED <<svc, settings, call, lifespan, batch, polled,
                   yieldedOfBatch, published, consumer, producer,
                   processing_active, cancelRequested, drainTimer, analyzer,
                   health, delivered, consecFail, loadFailed, loads,
                   idleSinceShutdown, connLog>>

\* publish_call_transcribed, then the finally clause removing the file
PublishTranscribed ==
    /\ svc = "transcription"
    /\ pc = "process"
    /\ stage = "publish"
    /\ \E created \in BOOLEAN, outcome \in PublishOutcomes :
          LET r == publish_call_transcribed(producer, created, outcome)
          IN  /\ producer' = r.producer
              /\ published' = IF r.ret = "true"
                              THEN Append(published,
                                          [event |-> out, trigger |-> cur])
                              ELSE published
              /\ errors' = IF r.ret = "raise" THEN errors + 1 ELSE errors
              /\ pc' = IF r.ret = "raise" THEN AfterProcessingError
                       ELSE "batch"
    /\ tempFiles' = tempFiles - 1
    /\ stage' = "none"
    /\ cur' = NoEvent
    /\ out' = NoEvent
    /\ work' = [NoWork EXCEPT !.attempts = work.attempts + 1]
    /\ UNCHANGED <<svc, settings, call, lifespan, batch, polled,
                   yieldedOfBatch, consumer, processing_active,
                   cancelRequested, drainTimer, analyzer, whisperModel, health,
                   nextUuid, delivered, consecFail, loadFailed, loads,
                   idleSinceShutdown, connLog>>

(***************************************************************************)
(* Shutdown part of lifespan.  It runs on the event loop the task runs on, *)
(* so each of its steps happens while the task is parked, has finished or *)
(* has not made its first step yet.                                        *)
(***************************************************************************)
\* variant: the sentiment shutdown awaits the task without cancelling it
ShutdownBegin_NoCancel ==
    /\ lifespan = "serving"
    /\ Suspended \/ Finished \/ NotStarted
    /\ lifespan' = "await"
    /\ IF svc = "sentiment"
       THEN /\ cancelRequested' = FALSE
            /\ UNCHANGED <<processing_active, drainTimer>>
       ELSE /\ processing_active' = FALSE
            /\ drainTimer' = IF Finished THEN "off" ELSE "armed"
            /\ UNCHANGED cancelRequested
    /\ UNCHANGED <<svc, settings, call, pc, stage, batch, polled,
                   yieldedOfBatch, cur, work, out, published, consumer,
                   producer, analyzer, whisperModel, health, tempFiles,
                   nextUuid, delivered, errors, consecFail, loadFailed, loads,
                   idleSinceShutdown, connLog>>

\* sentiment: processing_task.cancel(), then await processing_task;
\* transcription: processing_active = False, then wait_for(task, 10.0).
\* The host may leave the lifespan context before the created task has
\* made its first step.
ShutdownBegin ==
    /\ lifespan = "serving"
    /\ Suspended \/ Finished \/ NotStarted
    /\ lifespan' = "await"
    /\ IF svc = "sentiment"
       THEN /\ cancelRequested' = ~Finished
            /\ UNCHANGED <<processing_active, drainTimer>>
       ELSE /\ processing_active' = FALSE
            /\ drainTimer' = IF Finished THEN "off" ELSE "armed"
            /\ UNCHANGED cancelRequested
    /\ UNCHANGED <<svc, settings, call, pc, stage, batch, polled,
                   yieldedOfBatch, cur, work, out, published, consumer,
                   producer, analyzer, whisperModel, health, tempFiles,
                   nextUuid, delivered, errors, consecFail, loadFailed, loads,
                   idleSinceShutdown, connLog>>

\* the timeout of wait_for expires: wait_for cancels the task
DrainTimeout ==
    /\ svc = "transcription"
    /\ lifespan = "await"
    /\ drainTimer = "armed"
    /\ Suspended
    /\ cancelRequested' = TRUE
    /\ drainTimer' = "expired"
    /\ UNCHANGED <<svc, settings, call, lifespan, pc, stage, batch, polled,
                   yieldedOfBatch, cur, work, out, published, consumer,
                   producer, processing_active, analyzer, whisperModel, health,
                   tempFiles, nextUuid, delivered, errors, consecFail,
                   loadFailed, loads, idleSinceShutdown, connLog>>

\* the awaited task has finished: the await (or wait_for) returns or raises
AwaitDone ==
    /\ lifespan = "await"
    /\ Finished
    /\ lifespan' = "close"
    /\ drainTimer' = IF drainTimer = "armed" THEN "off" ELSE drainTimer
    /\ UNCHANGED <<svc, settings, call, pc, stage, batch, polled,
                   yieldedOfBatch, cur, work, out, published, consumer,
                   producer, processing_active, cancelRequested, analyzer,
                   whisperModel, health, tempFiles, nextUuid, delivered,
                   errors, consecFail, loadFailed, loads, idleSinceShutdown,
                   connLog>>

\* kafka_service.close()
Close ==
    /\ lifespan = "close"
    /\ lifespan' = "complete"
    /\ LET r == close(svc, consumer, producer)
       IN  /\ consumer' = r.consumer
           /\ producer' = r.producer
           /\ connLog' = connLog \o r.log
    /\ UNCHANGED <<svc, settings, call, pc, stage, batch, polled,
                   yieldedOfBatch, cur, work, out, published,
                   processing_active, cancelRequested, drainTimer, analyzer,
                   whisperModel, health, tempFiles, nextUuid, delivered,
                   errors, consecFail, loadFailed, loads, idleSinceShutdown>>

Next ==
    \/ StartupSentiment
    \/ StartupTranscription
    \/ TaskStart
    \/ PollBatch
    \/ PollEmpty
    \/ PollError
    \/ PollInterrupt
    \/ BatchEnd
    \/ SkipUndecodable
    \/ YieldEvent
    \/ GeneratorFinalize
    \/ Resume
    \/ AnalyzeSentiment
    \/ PublishSentiment
    \/ LoadModelAgain
    \/ Download
    \/ Transcribe
    \/ PublishTranscribed
    \/ ShutdownBegin
    \/ DrainTimeout
    \/ AwaitDone
    \/ Close

Spec == Init /\ [][Next]_vars

\* The event loop runs every task that is ready: a task that was created
\* makes its first step and a task parked at asyncio.sleep is resumed.
LiveSpec == Init /\ [][Next]_vars /\ WF_vars(TaskStart) /\ WF_vars(Resume)

(***************************************************************************)
(* Direct calls of the operations.  A second specification calls the       *)
(* operations of the analyzer and of the two KafkaService classes on       *)
(* inputs drawn from the sets below, under each of a few settings: one     *)
(* call per behaviour, kept with its input and its result in call.         *)
(***************************************************************************)
MaxTextLen == 2
MaxSegs == 2
MaxDiarSegs == 4
MaxCalls == 3

FnChars == {" ", "\r", "g", "b"}
FnTexts == UNION { [1..n -> FnChars] : n \in 0..MaxTextLen }

\* (startTime, endTime) pairs in 1/8 s: two positive durations, a zero and
\* a negative one
FnSpans == { <<0, 40>>, <<40, 120>>, <<40, 40>>, <<72, 40>> }
\* scores in 1/1024: 0.125, 0.25 and 0.375 of either sign
FnScores == { -384, -256, -128, 128, 256, 384 }

\* a SentimentSegment as analyze_segments returns it
FnSegment(span, score) ==
    [startTime |-> span[1], endTime |-> span[2], text |-> <<"g">>,
     sentiment |-> Bucket(1000 * score, 1024 * neutral_range[1],
                          1024 * neutral_range[2]),
     score |-> score, confidence |-> 1024, emotions |-> {},
     speaker |-> "agent"]

FnSegLists ==
    UNION { [1..n -> { FnSegment(sp, sc) : sp \in FnSpans, sc \in FnScores }] :
               n \in 0..MaxSegs }

\* analyzed segments whose overall score falls close to an edge of the
\* default band (0.2 is 204.8 / 1024), or on it
FnEdgeLists ==
    { <<FnSegment(<<0, 40>>, a), FnSegment(<<40, 120>>, b)>> :
         a \in {204, 205, -204, -205}, b \in {205, -205} }
    \cup { <<FnSegment(<<0, 8>>, a), FnSegment(<<8, 40>>, b)>> :
              a \in {512, -512}, b \in {128, -128} }

\* outputs of the primary pipeline: probabilities of LABEL_0, LABEL_1, LABEL_2
\* in 1/1024
FnProbs == { <<0, 768, 256>>, <<256, 768, 0>>, <<0, 640, 384>>,
             <<384, 640, 0>>, <<0, 896, 128>>, <<128, 896, 0>>,
             <<0, 973, 51>>, <<51, 973, 0>>, <<410, 204, 410>>,
             <<0, 0, 1024>>, <<1024, 0, 0>> }

FnSettings ==
    { DefaultSettings,
      [neutral_range |-> <<-250, 250>>, escalation_threshold |-> 0],
      [neutral_range |-> <<125, 375>>, escalation_threshold |-> 0],
      [neutral_range |-> <<-375, -125>>, escalation_threshold |-> 500] }

\* every variable but call
pipelineVars ==
    <<svc, lifespan, pc, stage, batch, polled, yieldedOfBatch, cur, work, out,
      published, consumer, producer, processing_active, cancelRequested,
      drainTimer, analyzer, whisperModel, health, tempFiles, nextUuid,
      delivered, errors, consecFail, loadFailed, loads, idleSinceShutdown,
      connLog, settings>>

FnInit ==
    /\ svc \in {"sentiment", "transcription"}
    /\ settings \in FnSettings
    /\ svc = "transcription" => settings = DefaultSettings
    /\ InitState

CallAnalyzeText ==
    /\ call.op = "none"
    /\ svc = "sentiment"
    /\ \E text \in FnTexts, use_fallback \in BOOLEAN, throws \in BOOLEAN :
          call' = [op |-> "analyze_text",
                   arg |-> [text |-> text, use_fallback |-> use_fallback,
                            throws |-> throws],
                   ret |-> analyze_text(text, use_fallback, throws)]
    /\ UNCHANGED pipelineVars

CallWeightedScore ==
    /\ call.op = "none"
    /\ svc = "sentiment"
    /\ \E p \in FnProbs :
          LET scores == << [label |-> "LABEL_0", score |-> p[1]],
                           [label |-> "LABEL_1", score |-> p[2]],
                           [label |-> "LABEL_2", score |-> p[3]] >>
          IN  call' = [op |-> "_calculate_weighted_score",
                       arg |-> scores,
                       ret |-> calculate_weighted_score(scores)]
    /\ UNCHANGED pipelineVars

CallOverallSentiment ==
    /\ call.op = "none"
    /\ svc = "sentiment"
    /\ \E segments \in FnSegLists \cup FnEdgeLists :
          call' = [op |-> "calculate_overall_sentiment",
                   arg |-> segments,
                   ret |-> calculate_overall_sentiment(segments)]
    /\ UNCHANGED pipelineVars

CallDetectEscalation ==
    /\ call.op = "none"
    /\ svc = "sentiment"
    /\ \E segments \in FnSegLists :
          call' = [op |-> "detect_escalation",
                   arg |-> segments,
                   ret |-> detect_escalation(segments)]
    /\ UNCHANGED pipelineVars

\* raw ASR segments: (start, end) in 1/64 s with a pause of exactly 1.5 s
\* and of more than 1.5 s after the first, a zero and a negative duration;
\* quality fields inside and outside the assumed ranges, or absent
FnRawSpans == { <<8, 72>>, <<168, 192>>, <<169, 169>>, <<192, 128>> }

FnRawSegments ==
    { [start |-> sp[1], end |-> sp[2], text |-> <<" ", "h">>,
       avg_logprob |-> q[1], no_speech_prob |-> q[2]] :
         sp \in FnRawSpans,
         q \in { <<-19, 6>>, <<-160, 64>>, <<32, 0>> } }
    \cup { [start |-> sp[1], end |-> sp[2], text |-> <<" ", "h">>] :
              sp \in FnRawSpans }

FnRawLists == UNION { [1..n -> FnRawSegments] : n \in 0..MaxSegs }

\* spans of the segments of a longer call: after <<169, 169>> the span
\* <<265, 270>> starts after a pause of exactly the threshold, and <<367, 400>>
\* after a longer one
FnDiarSpans == FnRawSpans \cup { <<265, 270>>, <<367, 400>> }

FnDiarSegments ==
    { [start |-> sp[1], end |-> sp[2], text |-> <<" ", "h">>] :
         sp \in FnDiarSpans }

FnDiarLists == UNION { [1..n -> FnDiarSegments] : n \in 0..MaxDiarSegs }

CallDiarization ==
    /\ call.op = "none"
    /\ svc = "transcription"
    /\ \E segments \in FnRawLists \cup FnDiarLists :
          call' = [op |-> "_add_speaker_diarization",
                   arg |-> segments,
                   ret |-> add_speaker_diarization(segments)]
    /\ UNCHANGED pipelineVars

CallConfidence ==
    /\ call.op = "none"
    /\ svc = "transcription"
    /\ \E segments \in FnRawLists :
          call' = [op |-> "_calculate_confidence",
                   arg |-> segments,
                   ret |-> calculate_confidence(segments)]
    /\ UNCHANGED pipelineVars

\* publish_sentiment or publish_call_transcribed on a producer in any state
CallPublish ==
    /\ call.op = "none"
    /\ \E prod \in IF svc = "sentiment" THEN {"none", "open", "closed"}
                   ELSE {"none", "open"},
          created \in IF svc = "sentiment" THEN {TRUE} ELSE BOOLEAN,
          outcome \in PublishOutcomes :
          call' = [op |-> "publish",
                   arg |-> [producer |-> prod, created |-> created,
                            outcome |-> outcome],
                   ret |-> IF svc = "sentiment"
                           THEN publish_sentiment(prod, outcome)
                           ELSE publish_call_transcribed(prod, created,
                                                         outcome)]
    /\ UNCHANGED pipelineVars

\* close() called twice in a row on the handles in any state
CallClose ==
    /\ call.op = "none"
    /\ \E cons \in IF svc = "sentiment" THEN {"none", "open", "closed"}
                   ELSE {"none", "open"},
          prod \in IF svc = "sentiment" THEN {"none", "open", "closed"}
                   ELSE {"none", "open"} :
          LET first == close(svc, cons, prod)
          IN  call' = [op |-> "close",
                       arg |-> [consumer |-> cons, producer |-> prod],
                       ret |-> [first |-> first,
                                second |-> close(svc, first.consumer,
                                                 first.producer)]]
    /\ UNCHANGED pipelineVars

\* the sequences of at most n calls of the WhisperService, each with the
\* outcome whisper.load_model has if the call reaches it
RECURSIVE FnCallSeqs(_)
FnCallSeqs(n) ==
    IF n = 0 THEN {<<>>}
    ELSE LET shorter == FnCallSeqs(n - 1)
         IN  shorter \cup
             {Append(q, [op |-> o, ok |-> k]) :
                 q \in {x \in shorter : Len(x) = n - 1},
                 o \in {"load_model", "transcribe"}, k \in BOOLEAN}

\* a sequence of load_model and transcribe calls on a new WhisperService
CallWhisper ==
    /\ call.op = "none"
    /\ svc = "transcription"
    /\ \E calls \in FnCallSeqs(MaxCalls) :
          call' = [op |-> "whisper_calls",
                   arg |-> calls,
                   ret |-> WhisperCalls("none", calls)]
    /\ UNCHANGED pipelineVars

\* the first step of consume_transcribed with or without a consumer
CallConsume ==
    /\ call.op = "none"
    /\ svc = "sentiment"
    /\ \E cons \in {"none", "open"},
          b \in {<<>>} \cup Batches("sentiment", MaxBatch) :
          call' = [op |-> "consume_transcribed",
                   arg |-> [consumer |-> cons, batch |-> b],
                   ret |-> consume_transcribed_first(cons, b)]
    /\ UNCHANGED pipelineVars

\* transcription segments as the sentiment service receives them; the
\* last one has no speaker and an empty text
FnInSegments ==
    { SegG, SegB, SegBlank,
      [startTime |-> 1600, endTime |-> 1600, text |-> <<>>,
       speaker |-> MissingStr] }

FnInLists == UNION { [1..n -> FnInSegments] : n \in 0..MaxSegs }

CallAnalyzeSegments ==
    /\ call.op = "none"
    /\ svc = "sentiment"
    /\ \E segments \in FnInLists, use_fallback \in BOOLEAN :
          \E throws \in [DOMAIN segments -> BOOLEAN] :
             call' = [op |-> "analyze_segments",
                      arg |-> [segments |-> segments,
                               use_fallback |-> use_fallback,
                               throws |-> throws],
                      ret |-> analyze_segments(segments, use_fallback,
                                               throws)]
    /\ UNCHANGED pipelineVars

\* the label and the score process_single_event puts into the payload for
\* the analyzed segments
CallPayloadScore ==
    /\ call.op = "none"
    /\ svc = "sentiment"
    /\ \E segments \in FnSegLists \cup FnEdgeLists :
          LET overall == calculate_overall_sentiment(segments)
          IN  call' = [op |-> "payload_score",
                       arg |-> segments,
                       ret |-> [overallSentiment |-> overall.sentiment,
                                sentimentScore |-> PayloadScore(overall)]]
    /\ UNCHANGED pipelineVars

FnNext ==
    \/ CallAnalyzeText
    \/ CallWeightedScore
    \/ CallOverallSentiment
    \/ CallDetectEscalation
    \/ CallDiarization
    \/ CallConfidence
    \/ CallPublish
    \/ CallClose
    \/ CallWhisper
    \/ CallConsume
    \/ CallAnalyzeSegments
    \/ CallPayloadScore

FnSpec == FnInit /\ [][FnNext]_vars

(***************************************************************************)
(* Properties.                                                             *)
(***************************************************************************)
NonBlank(text) == ~(text = <<>> \/ Strip(text) = <<>>)

\* C1: every output event built or published for an input event E carries
\* causationId = E.eventId and correlationId = E.correlationId
C1_CausalChain ==
    /\ \A i \in DOMAIN published :
          /\ published[i].event.causationId = published[i].trigger.eventId
          /\ published[i].event.correlationId
                = published[i].trigger.correlationId
    /\ out # NoEvent =>
          /\ out.causationId = cur.eventId
          /\ out.correlationId = cur.correlationId

C1_Witness ==
    /\ Len(published) >= 2
    /\ published[1].trigger.correlationId # published[2].trigger.correlationId
    /\ published[2].event.eventId # published[2].trigger.eventId

\* C2: every published output event has the aggregateId of its input event,
\* also when the input's payload callId differs from its aggregateId
C2_AggregateId ==
    \A i \in DOMAIN published :
        published[i].event.aggregateId = published[i].trigger.aggregateId

\* C3: a step in which the processing of an event raises publishes nothing,
\* leaves the lifespan alone and returns the task to the iteration of the
\* batch with the remaining records untouched
C3_Swallowed ==
    [][errors' # errors =>
          /\ published' = published
          /\ pc' = "batch"
          /\ batch' = batch
          /\ cur' = NoEvent
          /\ lifespan' = lifespan
          /\ consumer' = consumer]_vars

C3_Witness ==
    /\ errors >= 2
    /\ pc = "batch"
    /\ published = <<>>
    /\ lifespan = "serving"

\* C4: the events yielded from a polled batch are the decodable records of
\* the part iterated so far, in their order, and all decodable records of
\* the batch once the generator is back at the poll
C4_BatchDecode ==
    LET D(m) == Decodable(svc, m)
    IN  /\ SelectSeq(polled, D) = yieldedOfBatch \o SelectSeq(batch, D)
        /\ pc \in {"poll", "idle", "retry"} => batch = <<>>

C4_Witness ==
    /\ pc = "poll"
    /\ Len(polled) >= 2
    /\ ~Decodable(svc, polled[1])
    /\ Decodable(svc, polled[2])
    /\ yieldedOfBatch = <<polled[2]>>

\* C5: a poll that raises yields nothing and parks the generator at the retry
\* sleep with the consumer kept; from the retry sleep the generator goes back
\* to the poll unless the task was cancelled meanwhile
C5_PollRetry ==
    [][/\ (pc = "poll" /\ pc' # "poll" /\ consecFail' > 0) =>
             /\ pc' = "retry"
             /\ yieldedOfBatch' = yieldedOfBatch
             /\ cur' = cur
             /\ consumer' = consumer
             /\ published' = published
       /\ (pc = "retry" /\ pc' # "retry") =>
             \/ pc' = "poll"
             \/ cancelRequested /\ pc' = "cancelled"]_vars

C5_Witness ==
    /\ consecFail >= 2
    /\ pc = "poll"

\* C6: in the transcription service, once a poll has returned no records
\* after the shutdown request, the loop is parked at that idle point or has
\* stopped, without a cancellation
C6_StopsAtIdle ==
    (svc = "transcription" /\ idleSinceShutdown /\ ~cancelRequested) =>
        pc \in {"idle", "done"}

\* C7: while an event is being processed no step cancels the task, advances
\* the lifespan or touches the connections, and the processing ends in the
\* batch iteration; a publish is attempted only before close() and on a task
\* that was not cancelled
C7_NoInterrupt ==
    [][/\ pc = "process" =>
             /\ cancelRequested' = cancelRequested
             /\ lifespan' = lifespan
             /\ connLog' = connLog
             /\ producer' # "closed"
             /\ pc' \in {"process", "batch"}
       /\ (stage = "publish" /\ stage' # "publish") =>
             /\ ~cancelRequested
             /\ lifespan \notin {"close", "complete"}
             /\ "producer.close" \notin Range(connLog)
             /\ producer # "closed"]_vars

C7_Witness ==
    /\ lifespan = "complete"
    /\ pc = "cancelled"
    /\ Len(published) >= 1
    /\ "producer.close" \in Range(connLog)

\* C8 as stated: whenever the shutdown waits for an unfinished task, in
\* either service, the wait is under a drain timeout
C8_DrainTimeout ==
    (lifespan = "await" /\ ~Finished) => drainTimer \in {"armed", "expired"}

\* C8 amended: the transcription shutdown waits under the wait_for timeout
\* and the task is cancelled once it expires; the sentiment shutdown has no
\* timeout and cancels the task before it waits; the connections are closed
\* only after the task has finished
C8_BoundedWait ==
    /\ (lifespan = "await" /\ ~Finished) =>
          IF svc = "transcription"
          THEN /\ drainTimer \in {"armed", "expired"}
               /\ drainTimer = "expired" <=> cancelRequested
          ELSE /\ drainTimer = "off"
               /\ cancelRequested
    /\ lifespan \in {"close", "complete"} => Finished

C8_Witness ==
    /\ svc = "transcription"
    /\ drainTimer = "expired"
    /\ pc = "cancelled"
    /\ lifespan = "complete"

\* C9: in primary mode, a segment whose primary call throws gets the result
\* of the fallback engine on its text, every segment of the batch is
\* analysed, the analyzer's fields are unchanged and the next non-blank
\* segment is given to the primary engine again
C9_CallFallback ==
    [][(svc = "sentiment" /\ stage = "analyze" /\ stage' = "publish") =>
          LET segments == cur.payload.segments
              res == out'.payload.segments
          IN  /\ analyzer' = analyzer
              /\ Len(res) = Len(segments)
              /\ Len(work'.log) = Len(segments)
              /\ \A i \in DOMAIN segments :
                    (work'.throws[i] /\ NonBlank(segments[i].text)
                        /\ ~analyzer.use_vader_fallback) =>
                       LET v == analyze_with_vader(segments[i].text)
                       IN  /\ res[i].sentiment = v.sentiment
                           /\ res[i].score = v.score
                           /\ res[i].confidence = v.confidence
                           /\ res[i].emotions = v.emotions
                           /\ work'.log[i].primaryCalled
                           /\ (i < Len(segments)
                                 /\ NonBlank(segments[i + 1].text)) =>
                                 work'.log[i + 1].primaryCalled]_vars

C9_Witness ==
    /\ stage = "publish"
    /\ svc = "sentiment"
    /\ ~analyzer.use_vader_fallback
    /\ Len(work.throws) = 2
    /\ work.throws[1]
    /\ ~work.throws[2]
    /\ work.log[2].primaryCalled
    /\ ~work.log[2].vaderCalled

\* C10: after a load_model call has failed the analyzer stays in fallback
\* mode: no step leaves it, every analysed non-blank text is answered by
\* the fallback engine without a primary call, and every event published
\* afterwards has usedFallback = true
C10_PermanentFallback ==
    [][loadFailed =>
          /\ analyzer.use_vader_fallback
          /\ analyzer'.use_vader_fallback
          /\ (stage = "analyze" /\ stage' = "publish") =>
                \A i \in DOMAIN work'.log :
                    /\ ~work'.log[i].primaryCalled
                    /\ NonBlank(cur.payload.segments[i].text) =>
                          /\ work'.log[i].vaderCalled
                          /\ work'.log[i].result
                                = analyze_with_vader(cur.payload.segments[i].text)
          /\ Len(published') > Len(published) =>
                published'[Len(published')].event.metadata.usedFallback]_vars

C10_Witness ==
    /\ loadFailed
    /\ loads >= 1
    /\ analyzer.roberta_pipeline = "loaded"
    /\ Len(published) >= 1
    /\ published[Len(published)].event.metadata.usedFallback

\* C11: a published sentiment event has usedFallback = false only when no
\* segment of that event was scored by the fallback engine, also when the
\* primary engine threw on single calls of a process in primary mode
C11_UsedFallback ==
    [][(svc = "sentiment" /\ Len(published') > Len(published)) =>
          (~published'[Len(published')].event.metadata.usedFallback =>
              \A i \in DOMAIN work.log : ~work.log[i].vaderCalled)]_vars

\* C12: the sentiment processing of an event with no segments ends without
\* an engine call, without building or publishing an output event and
\* without an exception
C12_EmptyEvent ==
    [][(svc = "sentiment" /\ stage = "analyze"
          /\ cur.payload.segments = <<>>) =>
          /\ stage' = "none"
          /\ pc' = "batch"
          /\ cur' = NoEvent
          /\ work' = NoWork
          /\ out' = NoEvent
          /\ nextUuid' = nextUuid
          /\ published' = published
          /\ errors' = errors]_vars

C12_Witness ==
    /\ svc = "sentiment"
    /\ pc = "batch"
    /\ stage = "none"
    /\ yieldedOfBatch # <<>>
    /\ yieldedOfBatch[Len(yieldedOfBatch)].payload.segments = <<>>
    /\ errors = 0
    /\ nextUuid = 100
    /\ published = <<>>

\* C13: the processing of one input event makes at most one publish attempt:
\* the step that publishes ends the processing of the event whatever the
\* attempt returns, it is the first attempt for the event, it adds at most
\* the event built for that input to the published events, and the task
\* goes on with the rest of the batch
C13_OnePublish ==
    [][/\ work'.attempts <= 1
       /\ (stage = "publish") =>
             /\ work.attempts = 0
             /\ work'.attempts = 1
             /\ stage' = "none"
             /\ cur' = NoEvent
             /\ out' = NoEvent
             /\ pc' = "batch"
             /\ \/ published' = published
                \/ published' = Append(published,
                                       [event |-> out, trigger |-> cur])]_vars

\* a sentiment event was built, its only publish attempt failed, and the
\* task is back in the batch loop
C13_Witness ==
    /\ svc = "sentiment"
    /\ pc = "batch"
    /\ stage = "none"
    /\ cur = NoEvent
    /\ yieldedOfBatch # <<>>
    /\ yieldedOfBatch[Len(yieldedOfBatch)].payload.segments # <<>>
    /\ work.attempts = 1
    /\ nextUuid = 101
    /\ published = <<>>
    /\ producer = "open"
    /\ errors = 0

\* C14 (as stated): the publish operations never raise, whatever the state
\* of the producer; they return true only after the acknowledgment
C14_NeverRaise ==
    call.op = "publish" =>
       /\ call.ret.ret \in {"true", "false"}
       /\ call.ret.ret = "true" => call.arg.outcome = "ack"

\* C14 (amended): publish_sentiment raises exactly when the producer was
\* never initialised and publish_call_transcribed exactly when the producer
\* is absent and its creation fails; otherwise they return true when the
\* producer is open and the acknowledgment was obtained, false in every
\* other case
C14_RaiseOnlyWithoutProducer ==
    call.op = "publish" =>
       LET a == call.arg
           r == call.ret.ret
           absent == /\ a.producer = "none"
                     /\ svc = "transcription" => ~a.created
       IN  /\ r = "raise" <=> absent
           /\ r = "true" <=> (~absent /\ a.producer # "closed"
                                /\ a.outcome = "ack")
           /\ r \in {"raise", "true", "false"}

C14_Witness ==
    /\ call.op = "publish"
    /\ svc = "sentiment"
    /\ call.arg.producer = "none"
    /\ call.arg.outcome = "ack"
    /\ call.ret.ret = "raise"

\* C15: for every text that is empty or made of whitespace only,
\* analyze_text returns (neutral, 0.0, 1.0, no distribution) and calls
\* neither engine, in primary mode and in fallback mode
C15_BlankText ==
    (/\ call.op = "analyze_text"
     /\ \A i \in DOMAIN call.arg.text :
           call.arg.text[i] \in Whitespace) =>
       /\ call.ret.result.sentiment = "neutral"
       /\ call.ret.result.score = 0
       /\ call.ret.result.confidence = 1024
       /\ call.ret.result.emotions = {}
       /\ ~call.ret.primaryCalled
       /\ ~call.ret.vaderCalled

C15_Witness ==
    /\ call.op = "analyze_text"
    /\ call.arg.text = <<" ", "\r">>
    /\ call.arg.use_fallback
    /\ call.ret.result.confidence = 1024
    /\ ~call.ret.vaderCalled

\* the indices of the segments of positive duration
PositiveIdx(segments) ==
    {i \in DOMAIN segments : segments[i].endTime - segments[i].startTime > 0}

\* the sum of f[i] over the indices i of S
RECURSIVE SumOver(_, _)
SumOver(f, S) ==
    IF S = {} THEN 0
    ELSE LET i == CHOOSE x \in S : TRUE IN f[i] + SumOver(f, S \ {i})

\* C16: when a segment has a positive duration, the overall score is the
\* sum of score * duration over the sum of duration, both taken over
\* exactly the segments of positive duration, and the result is the one
\* computed on the list without the other segments
C16_WeightedMean ==
    (/\ call.op = "calculate_overall_sentiment"
     /\ PositiveIdx(call.arg) # {}) =>
       LET segments == call.arg
           P == PositiveIdx(segments)
           dur == [i \in DOMAIN segments |->
                      segments[i].endTime - segments[i].startTime]
           N == SumOver([i \in DOMAIN segments |->
                            segments[i].score * dur[i]], P)
           D == SumOver(dur, P)
           kept == SelectSeq(segments,
                             LAMBDA g : g.endTime - g.startTime > 0)
           r == calculate_overall_sentiment(kept)
       IN  /\ D > 0
           /\ call.ret.num = N
           /\ call.ret.den = D
           /\ call.ret = r

C16_Witness ==
    /\ call.op = "calculate_overall_sentiment"
    /\ Len(call.arg) = 2
    /\ call.arg[1].endTime - call.arg[1].startTime = 40
    /\ call.arg[1].score = 384
    /\ call.arg[2].endTime - call.arg[2].startTime = -32
    /\ call.arg[2].score = -384
    /\ call.ret.num = 15360
    /\ call.ret.den = 40

\* C17: when no segment has a positive duration (no segment at all, or
\* every endTime <= startTime) the overall result is (neutral, 0.0),
\* whatever the scores
C17_NoDuration ==
    (/\ call.op = "calculate_overall_sentiment"
     /\ \A i \in DOMAIN call.arg :
           call.arg[i].endTime <= call.arg[i].startTime) =>
       /\ call.ret.sentiment = "neutral"
       /\ call.ret.num = 0
       /\ call.ret.den # 0

C17_Witness ==
    /\ call.op = "calculate_overall_sentiment"
    /\ Len(call.arg) = 2
    /\ call.arg[1].endTime = call.arg[1].startTime
    /\ call.arg[1].score = 384
    /\ call.arg[2].endTime < call.arg[2].startTime
    /\ call.arg[2].score = 384
    /\ call.ret.sentiment = "neutral"
    /\ call.ret.num = 0

\* C18: under a band [lo, hi] with lo <= hi, a score the bucketing of
\* calculate_overall_sentiment or of _calculate_weighted_score finds above
\* hi is labelled positive and a score it finds below lo is labelled
\* negative (scores in 1/1024 against a band in thousandths)
C18_OutsideBand ==
    LET lo == 1024 * settings.neutral_range[1]
        hi == 1024 * settings.neutral_range[2]
    IN  /\ (call.op = "calculate_overall_sentiment"
              /\ PositiveIdx(call.arg) # {}) =>
              /\ 1000 * call.ret.num > hi * call.ret.den =>
                    call.ret.sentiment = "positive"
              /\ 1000 * call.ret.num < lo * call.ret.den =>
                    call.ret.sentiment = "negative"
        /\ call.op = "_calculate_weighted_score" =>
              /\ 1000 * call.ret.score > hi =>
                    call.ret.sentiment = "positive"
              /\ 1000 * call.ret.score < lo =>
                    call.ret.sentiment = "negative"

\* C19: a score equal to an edge of the band is labelled neutral by the
\* bucketing of calculate_overall_sentiment and of _calculate_weighted_score
C19_EdgeNeutral ==
    LET lo == 1024 * settings.neutral_range[1]
        hi == 1024 * settings.neutral_range[2]
    IN  /\ (/\ call.op = "calculate_overall_sentiment"
            /\ PositiveIdx(call.arg) # {}
            /\ \/ 1000 * call.ret.num = lo * call.ret.den
               \/ 1000 * call.ret.num = hi * call.ret.den) =>
              call.ret.sentiment = "neutral"
        /\ (call.op = "_calculate_weighted_score"
              /\ 1000 * call.ret.score \in {lo, hi}) =>
              call.ret.sentiment = "neutral"

\* the default band, two segments of scores 0.5 over 1 s and 0.125 over
\* 4 s: the overall score is 1.0 / 5.0, the double 0.2
C19_Witness ==
    /\ settings = DefaultSettings
    /\ call.op = "calculate_overall_sentiment"
    /\ Len(call.arg) = 2
    /\ call.arg[1].score = 512
    /\ call.arg[2].score = 128
    /\ 1000 * call.ret.num = 200 * 1024 * call.ret.den
    /\ call.ret.sentiment = "neutral"

\* C20: on a list of no segment or one segment detect_escalation returns
\* not-detected with empty details, whatever the scores and the threshold
C20_ShortList ==
    (call.op = "detect_escalation" /\ Len(call.arg) < 2) =>
       /\ ~call.ret.escalation_detected
       /\ call.ret.escalation_details = EmptyDetails

C20_Witness ==
    /\ call.op = "detect_escalation"
    /\ settings.escalation_threshold = 0
    /\ Len(call.arg) = 1
    /\ call.arg[1].score = -384
    /\ ~call.ret.escalation_detected
    /\ call.ret.escalation_details = EmptyDetails

\* C21: on at least two segments and under every configured threshold,
\* detect_escalation reports detected exactly when some pair i < j has
\* score_i - score_j >= threshold
C21_DetectIff ==
    (call.op = "detect_escalation" /\ Len(call.arg) >= 2) =>
       (call.ret.escalation_detected <=>
           \E i, j \in DOMAIN call.arg :
              /\ i < j
              /\ 1000 * (call.arg[i].score - call.arg[j].score)
                    >= 1024 * settings.escalation_threshold)

\* C22: when escalation is detected the details describe the pair i < j of
\* largest drop, the one of smallest i then smallest j among equal drops:
\* maxDrop, start time and score of segment i, end time and score of
\* segment j, duration endTime_j - startTime_i (drop and scores in
\* thousandths, the duration in hundredths of a second)
C22_Details ==
    (call.op = "detect_escalation" /\ call.ret.escalation_detected) =>
       LET segments == call.arg
           Drop(i, j) == segments[i].score - segments[j].score
           Pairs == {p \in (DOMAIN segments) \X (DOMAIN segments) :
                        p[1] < p[2]}
       IN  \E p \in Pairs :
              /\ \A q \in Pairs : Drop(q[1], q[2]) <= Drop(p[1], p[2])
              /\ \A q \in Pairs :
                    Drop(q[1], q[2]) = Drop(p[1], p[2]) =>
                       \/ q[1] > p[1]
                       \/ q[1] = p[1] /\ q[2] >= p[2]
              /\ call.ret.escalation_details =
                    [maxDrop |-> Round(Drop(p[1], p[2]), 1024, 1000),
                     startTime |-> segments[p[1]].startTime,
                     endTime |-> segments[p[2]].endTime,
                     startScore |-> Round(segments[p[1]].score, 1024, 1000),
                     endScore |-> Round(segments[p[2]].score, 1024, 1000),
                     duration |-> Round(segments[p[2]].endTime
                                        - segments[p[1]].startTime, 8, 100)]

\* C23: a published sentiment event carries escalation details exactly
\* when its escalationDetected is true; when nothing is detected the
\* detector returned the empty details and the payload carries none
C23_DetailsIffDetected ==
    svc = "sentiment" =>
       \A k \in DOMAIN published :
          LET p == published[k].event.payload
              esc == detect_escalation(p.segments)
          IN  /\ p.escalationDetails # NoDetails <=> p.escalationDetected
              /\ p.escalationDetected =>
                    /\ p.escalationDetails = esc.escalation_details
                    /\ p.escalationDetails # EmptyDetails
              /\ ~p.escalationDetected =>
                    esc.escalation_details = EmptyDetails

\* one published event with a detected escalation, one without
C23_Witness ==
    /\ svc = "sentiment"
    /\ Len(published) = 2
    /\ published[1].event.payload.escalationDetected
    /\ published[1].event.payload.escalationDetails.maxDrop >= 500
    /\ ~published[2].event.payload.escalationDetected
    /\ published[2].event.payload.escalationDetails = NoDetails

\* C24: _add_speaker_diarization returns one entry per input segment in
\* input order; the first is labelled agent whatever its start; each later
\* one has the opposite label of the one before it exactly when its start
\* minus the end of the segment before it is more than 1.5 s, and the same
\* label otherwise
C24_Diarization ==
    call.op = "_add_speaker_diarization" =>
       LET segments == call.arg
           res == call.ret
       IN  /\ Len(res) = Len(segments)
           /\ \A i \in DOMAIN segments :
                 /\ 64 * res[i].startTime - 100 * segments[i].start
                       \in -32..32
                 /\ 64 * res[i].endTime - 100 * segments[i].end \in -32..32
                 /\ res[i].speaker \in {"agent", "customer"}
                 /\ i = 1 => res[i].speaker = "agent"
                 /\ i > 1 =>
                       (res[i].speaker # res[i - 1].speaker <=>
                           segments[i].start - segments[i - 1].end
                              > PAUSE_THRESHOLD)

\* four segments: the first is the agent; after a pause of 97/64 s the
\* customer; after a pause of exactly 1.5 s still the customer; after a
\* pause of 97/64 s the agent again
C24_Witness ==
    /\ call.op = "_add_speaker_diarization"
    /\ Len(call.arg) = 4
    /\ <<call.arg[1].start, call.arg[1].end>> = <<8, 72>>
    /\ <<call.arg[2].start, call.arg[2].end>> = <<169, 169>>
    /\ <<call.arg[3].start, call.arg[3].end>> = <<265, 270>>
    /\ <<call.arg[4].start, call.arg[4].end>> = <<367, 400>>
    /\ call.arg[2].start - call.arg[1].end > PAUSE_THRESHOLD
    /\ call.arg[3].start - call.arg[2].end = PAUSE_THRESHOLD
    /\ call.arg[4].start - call.arg[3].end > PAUSE_THRESHOLD
    /\ [i \in 1..4 |-> call.ret[i].speaker]
          = <<"agent", "customer", "customer", "agent">>
    /\ call.ret[3].startTime = 414

\* the blended confidence of a raw segment in units of 1/256
BlendedConfidence(segment) ==
    LET a == IF "avg_logprob" \in DOMAIN segment
             THEN segment.avg_logprob ELSE -64
        n == IF "no_speech_prob" \in DOMAIN segment
             THEN segment.no_speech_prob ELSE 32
        lp == IF a < -128 THEN 0 ELSE IF a > 0 THEN 128 ELSE a + 128
    IN  lp + 2 * (64 - n)

\* C25: _calculate_confidence returns the sum of confidence * duration over
\* exactly the segments of positive duration divided by the sum of those
\* durations (rounded to thousandths), and 0.0 when no segment has a
\* positive duration
C25_ConfidenceWeighting ==
    call.op = "_calculate_confidence" =>
       LET segments == call.arg
           P == {i \in DOMAIN segments :
                    segments[i].end - segments[i].start > 0}
           dur == [i \in DOMAIN segments |->
                      segments[i].end - segments[i].start]
           N == SumOver([i \in DOMAIN segments |->
                            BlendedConfidence(segments[i]) * dur[i]], P)
           D == SumOver(dur, P)
       IN  IF P = {} THEN call.ret.num = 0
           ELSE /\ call.ret.den = 1
                /\ call.ret.num = Round(N, 256 * D, 1000)

\* C30: when every segment has end >= start and a no_speech_prob in [0, 1]
\* (0.5 where absent), _calculate_confidence returns a value in [0, 1]
C30_ConfidenceRange ==
    (/\ call.op = "_calculate_confidence"
     /\ \A i \in DOMAIN call.arg :
           /\ call.arg[i].end >= call.arg[i].start
           /\ "no_speech_prob" \in DOMAIN call.arg[i] =>
                 call.arg[i].no_speech_prob \in 0..64) =>
       /\ call.ret.den > 0
       /\ call.ret.num >= 0
       /\ call.ret.num <= 1000 * call.ret.den

\* log-probabilities below -2 and above 0, weighted by duration
C30_Witness ==
    /\ call.op = "_calculate_confidence"
    /\ Len(call.arg) = 2
    /\ call.arg[1].end - call.arg[1].start = 64
    /\ call.arg[2].end - call.arg[2].start = 24
    /\ "avg_logprob" \in DOMAIN call.arg[1]
    /\ "avg_logprob" \in DOMAIN call.arg[2]
    /\ call.arg[1].avg_logprob = 32
    /\ call.arg[2].avg_logprob = -160
    /\ call.ret = [num |-> 727, den |-> 1]

\* C26: after a startup in which the primary engine could not be loaded the
\* service is serving, its consume task was started, the analyzer is in
\* fallback mode, and the readiness state differs from the one a
\* successful load leaves (model_loaded = true with the same stream flags)
C26_DegradedReadiness ==
    (svc = "sentiment" /\ lifespan = "serving" /\ loadFailed /\ loads = 0) =>
       /\ pc # "nostart"
       /\ analyzer.use_vader_fallback
       /\ analyzer.model_loaded
       /\ health # [health EXCEPT !.model_loaded = TRUE]

\* C27: events are processed one at a time in the order the consume loop
\* yields them, which is the order of the records of the poll: a new event
\* is taken up only when no event is in hand and nothing is left to
\* publish, the event in hand is never exchanged for another, the events
\* yielded from a poll are its decodable records in order, and a publish
\* attempt is for the event yielded last
C27_InOrder ==
    [][/\ (cur = NoEvent /\ cur' # NoEvent) =>
             /\ stage = "none"
             /\ out = NoEvent
             /\ work'.attempts = 0
             /\ cur'.payload = yieldedOfBatch'[Len(yieldedOfBatch')].payload
       /\ (cur # NoEvent /\ cur' # NoEvent) => cur' = cur
       /\ yieldedOfBatch' =
             SelectSeq(SubSeq(polled', 1, Len(polled') - Len(batch')),
                       LAMBDA m : Decodable(svc, m))
       /\ stage = "publish" =>
             cur.payload = yieldedOfBatch[Len(yieldedOfBatch)].payload
       /\ Len(published') > Len(published) =>
             published'[Len(published')].trigger = cur]_vars

\* two different events of one poll published in the order of the poll
C27_Witness ==
    /\ Len(polled) = 2
    /\ Len(published) = 2
    /\ polled[1].payload # polled[2].payload
    /\ published[1].trigger.payload = polled[1].payload
    /\ published[2].trigger.payload = polled[2].payload
    /\ batch = <<>>

\* C28: the consume loop ends only by a keyboard interrupt, by a
\* cancellation or by the closing of the generator, and when it ends by
\* an interrupt or a cancellation the consumer connection is closed in the
\* same step, in both services
C28_ClosedOnExit ==
    [][(pc \in {"poll", "batch", "idle", "retry", "process"}
          /\ pc' \in {"done", "cancelled"}) =>
          \/ /\ svc = "transcription"
             /\ pc = "batch"
             /\ ~processing_active
          \/ /\ pc = "poll" \/ pc' = "cancelled"
             /\ consumer' # "open"
             /\ consumer = "open" =>
                   connLog' = Append(connLog, "consumer.close")]_vars

\* the number of times operation x occurs in the log
Count(log, x) == Cardinality({i \in DOMAIN log : log[i] = x})

\* C29: close() closes the consumer if there is one and, if there is a
\* producer, flushes it and then closes it; without handles it does
\* nothing; in the transcription service both handles are None afterwards
\* and a second close() makes no operation
C29_Close ==
    call.op = "close" =>
       LET a == call.arg
           first == call.ret.first
           second == call.ret.second
       IN  /\ Count(first.log, "consumer.close")
                 = IF a.consumer # "none" THEN 1 ELSE 0
           /\ Count(first.log, "producer.flush")
                 = IF a.producer # "none" THEN 1 ELSE 0
           /\ Count(first.log, "producer.close")
                 = IF a.producer # "none" THEN 1 ELSE 0
           /\ \A i, j \in DOMAIN first.log :
                 (first.log[i] = "producer.flush"
                    /\ first.log[j] = "producer.close") => i < j
           /\ (a.consumer = "none" /\ a.producer = "none") =>
                 first.log = <<>>
           /\ svc = "transcription" =>
                 /\ first.consumer = "none"
                 /\ first.producer = "none"
                 /\ second.log = <<>>

C29_Witness ==
    /\ call.op = "close"
    /\ svc = "transcription"
    /\ call.arg = [consumer |-> "open", producer |-> "open"]
    /\ call.ret.first.log
          = <<"consumer.close", "producer.flush", "producer.close">>
    /\ call.ret.second.log = <<>>

\* C31: over a sequence of load_model and transcribe calls the underlying
\* model is loaded only while none is loaded: after a load that succeeded
\* no later call loads again and the model stays loaded; a load that fails
\* re-raises and leaves the model unloaded, and the next call attempts the
\* load again
C31_LoadOnce ==
    call.op = "whisper_calls" =>
       LET t == call.ret
       IN  /\ Len(t) = Len(call.arg)
           /\ \A i \in DOMAIN t :
                 /\ t[i].attempted <=> (t[i].before = "none")
                 /\ (t[i].attempted /\ call.arg[i].ok) =>
                       /\ t[i].after = "loaded"
                       /\ ~t[i].raised
                       /\ \A j \in DOMAIN t :
                             j > i => /\ ~t[j].attempted
                                      /\ ~t[j].raised
                                      /\ t[j].after = "loaded"
                 /\ (t[i].attempted /\ ~call.arg[i].ok) =>
                       /\ t[i].raised
                       /\ t[i].after = "none"
                       /\ i + 1 \in DOMAIN t => t[i + 1].attempted
                 /\ ~t[i].attempted => (~t[i].raised /\ t[i].after = t[i].before)
           /\ Cardinality({i \in DOMAIN t :
                              t[i].attempted /\ ~t[i].raised}) <= 1

C31_Witness ==
    /\ call.op = "whisper_calls"
    /\ Len(call.ret) = 3
    /\ call.arg[1] = [op |-> "load_model", ok |-> FALSE]
    /\ call.ret[1].raised
    /\ call.arg[2] = [op |-> "transcribe", ok |-> TRUE]
    /\ call.ret[2].attempted /\ call.ret[2].after = "loaded"
    /\ call.arg[3].op = "load_model"
    /\ ~call.ret[3].attempted

\* C32: in the sentiment service consuming without an initialised consumer
\* and publishing without an initialised producer both raise, yield no
\* event and make no operation on a broker connection
C32_RaiseBeforeInit ==
    /\ (call.op = "consume_transcribed" /\ call.arg.consumer = "none") =>
          /\ call.ret.ret = "raise"
          /\ call.ret.yielded = <<>>
          /\ call.ret.ops = <<>>
    /\ (call.op = "publish" /\ svc = "sentiment"
          /\ call.arg.producer = "none") =>
          /\ call.ret.ret = "raise"
          /\ call.ret.ops = <<>>
          /\ call.ret.producer = "none"

C32_Witness ==
    /\ call.op = "consume_transcribed"
    /\ call.arg.consumer = "none"
    /\ \E i \in DOMAIN call.arg.batch :
          DecodableTranscribed(call.arg.batch[i])
    /\ call.ret.ret = "raise"

\* C33: analyze_segments returns one analyzed segment per input segment, in
\* the order of the input, each with the startTime, endTime, text and
\* speaker of its input segment; the empty list gives the empty list
C33_SegmentFrame ==
    call.op = "analyze_segments" =>
       LET segments == call.arg.segments
       IN  /\ Len(call.ret) = Len(segments)
           /\ \A i \in DOMAIN segments :
                 /\ call.ret[i].startTime = segments[i].startTime
                 /\ call.ret[i].endTime = segments[i].endTime
                 /\ call.ret[i].text = segments[i].text
                 /\ call.ret[i].speaker = segments[i].speaker
           /\ segments = <<>> => call.ret = <<>>

C33_Witness ==
    /\ call.op = "analyze_segments"
    /\ Len(call.arg.segments) = 2
    /\ call.arg.segments[1] = SegB
    /\ call.arg.segments[2].speaker = MissingStr
    /\ call.ret[1].text = <<" ", "b">>
    /\ call.ret[2].speaker = MissingStr

\* C34: in the sentiment service, once shutdown has requested the
\* cancellation of the background task, the task eventually ends cancelled
\* whatever the polls return, a poll that returns messages included: every
\* round of the loop passes a suspension point, so the task comes to its
\* next poll only from its first step or from a suspension point, and never
\* straight from the end of a batch
C34_CancelTerminates ==
    /\ (svc = "sentiment" /\ cancelRequested) ~> (pc = "cancelled")
    /\ [][(svc = "sentiment" /\ pc # "poll" /\ pc' = "poll")
             => (Suspended \/ NotStarted)]_vars

\* C35: in the transcription service every event the consume loop yields is
\* handed to processing, which starts with the download of its audio file;
\* no yielded event is dropped, also after the shutdown request
C35_YieldedProcessed ==
    [][(svc = "transcription" /\ yieldedOfBatch' # yieldedOfBatch
          /\ yieldedOfBatch' # <<>>) =>
          /\ pc' = "process"
          /\ stage' = "download"
          /\ cur' # NoEvent]_vars

\* C36: in the transcription service, once the shutdown part of lifespan
\* has set processing_active to false, no step sets it back to true
C36_NeverReenabled ==
    [][(svc = "transcription"
          /\ lifespan \in {"await", "close", "complete"}
          /\ ~processing_active) => ~processing_active']_vars

\* C37: in the transcription service no temporary audio file exists any
\* more when the processing of the event it was created for has ended
C37_NoTempFileLeft ==
    (svc = "transcription" /\ pc # "process") => tempFiles = 0

\* C38: in every published sentiment event overallSentiment is the bucket,
\* under the configured neutral band, of the published sentimentScore, the
\* overall score rounded to 3 decimals
C38_LabelMatchesScore ==
    call.op = "payload_score" =>
       call.ret.overallSentiment
          = Bucket(call.ret.sentimentScore, settings.neutral_range[1],
                   settings.neutral_range[2])

\* C39: in the sentiment service, after startup, the reported consumer
\* readiness is true exactly when the consumer was initialised and the
\* reported producer readiness exactly when the producer was initialised
C39_ReadinessPerConnection ==
    (svc = "sentiment" /\ lifespan = "serving") =>
       /\ health.kafka_consumer_ready <=> (consumer = "open")
       /\ health.kafka_producer_ready <=> (producer = "open")

\* C40: in the sentiment service, when the initialisation of the consumer
\* fails at startup, startup completes and the task is created; the task
\* ends at its first step without a poll and without an event; afterwards
\* the consumer stays absent and the task stays ended
C40_NoConsumerNoWork ==
    [][svc = "sentiment" =>
          /\ (lifespan = "startup" /\ consumer' = "none") =>
                (lifespan' = "serving" /\ pc' = "init")
          /\ (lifespan # "startup" /\ consumer = "none") =>
                /\ consumer' = "none"
                /\ pc \in {"init", "done", "cancelled"}
                /\ pc' \in {pc, "done", "cancelled"}
                /\ pc # "init" => pc' = pc
                /\ delivered' = 0
                /\ cur' = NoEvent
                /\ published' = <<>>
                /\ lifespan' # "startup"]_vars

C40_Witness ==
    /\ svc = "sentiment"
    /\ lifespan = "serving"
    /\ consumer = "none"
    /\ ~health.kafka_consumer_ready
    /\ pc = "done"
    /\ delivered = 0
====
